---- MODULE Spec2Model ----
(***************************************************************************)
(* Navigation and view-state management of managarr: the stateful          *)
(* collections (models/mod.rs), the navigation stack, the movie-details    *)
(* key handler and the Radarr block dispatcher (app/radarr.rs).            *)
(***************************************************************************)
EXTENDS Integers, Sequences, FiniteSets, TLC

(* ------------------------------ bounds -------------------------------- *)
\* longest item vector handed to set_items
MaxLen == 3
\* most chars of a text that is edited or scrolled
MaxText == 3
\* most lines of a text pane
MaxLines == 7
\* most events waiting on the channel to the network worker
MaxQueue == 2
\* most submitted actions that wait for a dispatch cycle
MaxOwed == 2
\* number of distinct item values
NumValues == 2
\* deepest navigation stack the free push operation builds
MaxDepth == 3
\* most rows of a table of fetched data (credits, releases, collections)
MaxRows == 1
\* largest tick count a tick pass starts with
MaxTick == 3
\* most movies of the table that is searched and filtered
MaxMovies == 2

(* ------------------------------ options ------------------------------- *)
\* Option<T>: None is the empty sequence, Some(x) the one-element sequence
None == <<>>
Some(x) == <<x>>
IsSome(o) == o # None
Unwrap(o) == o[1]

VARIABLES
  list,   \* a StatefulList / StatefulTable: [items, selected]
  app,    \* the App value: navigation stack, Radarr data, flags
  last    \* history: the last operation, its inputs and the state it started from

vars == <<list, app, last>>

(* ------------------- StatefulList / StatefulTable --------------------- *)
ItemValues == 1..NumValues
ItemVecs == UNION {[1..n -> ItemValues] : n \in 0..MaxLen}

\* #[derive(Default)]: no items, ListState/TableState with nothing selected
DefaultStateful == [items |-> <<>>, selected |-> None]


\* set_items that clamps a too-large selection to items_len instead of items_len - 1
set_items_clamp_len(t, items) ==
  IF items # <<>>
  THEN [items |-> items,
        selected |-> Some(IF IsSome(t.selected)
                          THEN (IF Unwrap(t.selected) < Len(items)
                                THEN Unwrap(t.selected) ELSE Len(items))
                          ELSE 0)]
  ELSE [items |-> items, selected |-> t.selected]

\* set_items that always restarts the selection at the first row
set_items_reset(t, items) ==
  IF items # <<>> THEN [items |-> items, selected |-> Some(0)]
  ELSE [items |-> items, selected |-> t.selected]

\* scroll_down that stops at the last row instead of wrapping
scroll_down_clamp(t) ==
  IF t.items = <<>> THEN t
  ELSE [t EXCEPT !.selected =
          Some(IF IsSome(t.selected) /\ Unwrap(t.selected) < Len(t.items) - 1
               THEN Unwrap(t.selected) + 1
               ELSE IF IsSome(t.selected) THEN Unwrap(t.selected) ELSE 0)]


scroll_down(t) ==
  IF t.items = <<>> THEN t
  ELSE LET selected_row ==
             IF IsSome(t.selected)
             THEN IF Unwrap(t.selected) >= Len(t.items) - 1 THEN 0
                  ELSE Unwrap(t.selected) + 1
             ELSE 0
       IN [t EXCEPT !.selected = Some(selected_row)]

scroll_up(t) ==
  IF t.items = <<>> THEN t
  ELSE LET selected_row ==
             IF IsSome(t.selected)
             THEN IF Unwrap(t.selected) = 0 THEN Len(t.items) - 1
                  ELSE Unwrap(t.selected) - 1
             ELSE 0
       IN [t EXCEPT !.selected = Some(selected_row)]

scroll_to_top(t) ==
  IF t.items = <<>> THEN t ELSE [t EXCEPT !.selected = Some(0)]

\* scroll_to_bottom without the early return on an empty collection
scroll_to_bottom_unguarded(t) == [t EXCEPT !.selected = Some(Len(t.items) - 1)]

scroll_to_bottom(t) ==
  IF t.items = <<>> THEN t ELSE [t EXCEPT !.selected = Some(Len(t.items) - 1)]

\* set_items that moves a too-large selection up by one row only
set_items_step_back(t, items) ==
  IF items # <<>>
  THEN [items |-> items,
        selected |-> Some(IF IsSome(t.selected)
                          THEN (IF Unwrap(t.selected) < Len(items)
                                THEN Unwrap(t.selected) ELSE Unwrap(t.selected) - 1)
                          ELSE 0)]
  ELSE [items |-> items, selected |-> t.selected]

set_items(t, items) ==
  LET items_len == Len(items) IN
  IF items # <<>>
  THEN LET selected_row ==
             IF IsSome(t.selected)
             THEN LET i == Unwrap(t.selected) IN
                  IF i > 0 /\ i < items_len THEN i
                  ELSE IF i >= items_len THEN items_len - 1
                  ELSE 0
             ELSE 0
       IN [items |-> items, selected |-> Some(selected_row)]
  ELSE [items |-> items, selected |-> t.selected]


(* ------------------------- blocks, routes, events --------------------- *)
\* the tabs of RadarrData::main_tabs and RadarrData::movie_info_tabs, in order
MainTabBlocks == <<"Movies", "Downloads", "Collections", "RootFolders">>
MovieInfoTabBlocks ==
  <<"MovieDetails", "MovieHistory", "FileInfo", "Cast", "Crew", "ManualSearch">>
\* the blocks MovieDetailsHandler matches: the six tabs and the two prompts
MovieInfoBlocks == {MovieInfoTabBlocks[i] : i \in 1..Len(MovieInfoTabBlocks)}
PromptBlocks == {"AutomaticallySearchMoviePrompt", "RefreshAndScanPrompt"}
\* ActiveRadarrBlock: the blocks named by the dispatcher and the handler, and
\* three of the blocks the dispatcher leaves to its default arm
Blocks ==
  {MainTabBlocks[i] : i \in 1..Len(MainTabBlocks)} \cup MovieInfoBlocks \cup PromptBlocks
    \cup {"CollectionDetails", "AddMovieSearchResults",
          "AddMoviePrompt", "DeleteMoviePrompt", "SearchMovie"}

\* impl From<ActiveRadarrBlock> for Route, From<(block, Option<block>)> for Route
RouteOf(block) == [block |-> block, context |-> None]
RouteWithContext(block, context) == [block |-> block, context |-> Some(context)]

\* RadarrEvent: the fetch events of the dispatcher and the prompt actions
FetchEvents ==
  {"GetCollections", "GetDownloads", "GetRootFolders", "GetMovies", "SearchNewMovie",
   "GetMovieDetails", "GetMovieHistory", "GetMovieCredits", "GetReleases"}
ActionEvents == {"TriggerAutomaticSearch", "RefreshAndScan"}

(* -------------------------------- App --------------------------------- *)
DEFAULT_ROUTE == RouteOf("Movies")
\* the polling interval, in ticks, that the tick tests configure
TickUntilPoll == 2

\* App::default() with RadarrData::default(); error is the text of the
\* error slot; frame is the text the renderer
\* drew last, panicked says that a handler panicked; sent is the sequence of events
\* handed to dispatch_network_event by the dispatch cycle that ran last
DefaultApp ==
  [navigation_stack |-> <<DEFAULT_ROUTE>>,
   is_routing |-> FALSE,
   is_loading |-> FALSE,
   should_refresh |-> FALSE,
   tick_count |-> 0, tick_until_poll |-> TickUntilPoll,
   main_tabs_index |-> 0,
   movie_info_tabs_index |-> 0,
   prompt_confirm |-> FALSE,
   prompt_confirm_action |-> None,
   movie_cast |-> DefaultStateful,
   movie_crew |-> DefaultStateful,
   movie_releases |-> DefaultStateful,
   collections |-> DefaultStateful,
   filtered_collections |-> DefaultStateful,
   collection_movies |-> DefaultStateful,
   movies |-> DefaultStateful,
   filtered_movies |-> DefaultStateful,
   search |-> None,
   filter |-> None,
   is_searching |-> FALSE,
   is_filtering |-> FALSE,
   should_ignore_quit_key |-> FALSE,
   edit_path |-> <<>>,
   edit_monitored |-> None,
   edit_search_on_add |-> None,
   frame |-> None,
   error |-> <<>>,
   panicked |-> FALSE,
   sent |-> <<>>]

get_current_route(a) == a.navigation_stack[Len(a.navigation_stack)]

push_navigation_stack(a, route) ==
  [a EXCEPT !.navigation_stack = Append(@, route), !.is_routing = TRUE]

\* pop that removes the top route whatever the depth
pop_navigation_stack_unguarded(a) ==
  [a EXCEPT !.navigation_stack = SubSeq(@, 1, Len(@) - 1), !.is_routing = TRUE]

pop_navigation_stack(a) ==
  IF Len(a.navigation_stack) > 1
  THEN [a EXCEPT !.navigation_stack = SubSeq(@, 1, Len(@) - 1), !.is_routing = TRUE]
  ELSE a

pop_and_push_navigation_stack(a, route) ==
  [a EXCEPT !.navigation_stack = [@ EXCEPT ![Len(@)] = route], !.is_routing = TRUE]

dispatch_network_event(a, event) ==
  [a EXCEPT !.is_loading = TRUE, !.sent = Append(@, event)]

reset_tick_count(a) == [a EXCEPT !.tick_count = 0]

(* ------------------------------ TabState ------------------------------ *)
tab_next(index, len) == (index + 1) % len
\* previous that stays on the first tab instead of wrapping to the last
tab_previous_no_wrap(index, len) == IF index > 0 THEN index - 1 ELSE 0
tab_previous(index, len) == IF index > 0 THEN index - 1 ELSE len - 1
\* TabState::new and TabState::get_active_route on a TabState value
tab_state_new(tabs) == [tabs |-> tabs, index |-> 0]
get_active_route(t) == t.tabs[t.index + 1]
main_tabs_active_route(a) == RouteOf(MainTabBlocks[a.main_tabs_index + 1])
movie_info_tabs_active_route(a) == RouteOf(MovieInfoTabBlocks[a.movie_info_tabs_index + 1])

\* tab switch that pushes the tab's route on top of the old one
handle_change_tab_pushing(a, key) ==
  LET a1 == [a EXCEPT !.main_tabs_index =
                        IF key = "left" THEN tab_previous(@, Len(MainTabBlocks))
                        ELSE tab_next(@, Len(MainTabBlocks))]
  IN push_navigation_stack(a1, main_tabs_active_route(a1))

handle_change_tab_left_right_keys(a, key) ==
  IF key = "left"
  THEN LET a1 == [a EXCEPT !.main_tabs_index = tab_previous(@, Len(MainTabBlocks))]
       IN pop_and_push_navigation_stack(a1, main_tabs_active_route(a1))
  ELSE IF key = "right"
  THEN LET a1 == [a EXCEPT !.main_tabs_index = tab_next(@, Len(MainTabBlocks))]
       IN pop_and_push_navigation_stack(a1, main_tabs_active_route(a1))
  ELSE a

(* ------------------------- MovieDetailsHandler ------------------------ *)
\* reset that empties the three tables and leaves the tab index where it is
reset_movie_info_tabs_keeps_index(a) ==
  [a EXCEPT !.movie_cast = DefaultStateful,
            !.movie_crew = DefaultStateful,
            !.movie_releases = DefaultStateful]

reset_movie_info_tabs(a) ==
  [a EXCEPT !.movie_cast = DefaultStateful,
            !.movie_crew = DefaultStateful,
            !.movie_releases = DefaultStateful,
            !.movie_info_tabs_index = 0]

handle_prompt_toggle(a, key) ==
  IF key \in {"left", "right"} THEN [a EXCEPT !.prompt_confirm = ~@] ELSE a

\* tab switch that routes to the tab that was active before the key
handle_left_right_action_stale_route(a, block, key) ==
  IF block \in MovieInfoBlocks
  THEN IF key = "left"
       THEN LET a1 == [a EXCEPT !.movie_info_tabs_index =
                                  tab_previous(@, Len(MovieInfoTabBlocks))]
            IN pop_and_push_navigation_stack(a1, movie_info_tabs_active_route(a))
       ELSE IF key = "right"
       THEN LET a1 == [a EXCEPT !.movie_info_tabs_index =
                                  tab_next(@, Len(MovieInfoTabBlocks))]
            IN pop_and_push_navigation_stack(a1, movie_info_tabs_active_route(a))
       ELSE a
  ELSE IF block \in PromptBlocks THEN handle_prompt_toggle(a, key)
  ELSE a

handle_left_right_action(a, block, key) ==
  IF block \in MovieInfoBlocks
  THEN IF key = "left"
       THEN LET a1 == [a EXCEPT !.movie_info_tabs_index =
                                  tab_previous(@, Len(MovieInfoTabBlocks))]
            IN pop_and_push_navigation_stack(a1, movie_info_tabs_active_route(a1))
       ELSE IF key = "right"
       THEN LET a1 == [a EXCEPT !.movie_info_tabs_index =
                                  tab_next(@, Len(MovieInfoTabBlocks))]
            IN pop_and_push_navigation_stack(a1, movie_info_tabs_active_route(a1))
       ELSE a
  ELSE IF block \in PromptBlocks THEN handle_prompt_toggle(a, key)
  ELSE a

handle_submit(a, block) ==
  IF block = "AutomaticallySearchMoviePrompt"
  THEN pop_navigation_stack(
         IF a.prompt_confirm
         THEN [a EXCEPT !.prompt_confirm_action = Some("TriggerAutomaticSearch")]
         ELSE a)
  ELSE IF block = "RefreshAndScanPrompt"
  THEN pop_navigation_stack(
         IF a.prompt_confirm
         THEN [a EXCEPT !.prompt_confirm_action = Some("RefreshAndScan")]
         ELSE a)
  ELSE a

\* Escape on a prompt that pops the route and leaves prompt_confirm as it is
handle_esc_keeps_confirm(a, block) ==
  IF block \in MovieInfoBlocks THEN reset_movie_info_tabs(pop_navigation_stack(a))
  ELSE IF block \in PromptBlocks THEN pop_navigation_stack(a)
  ELSE a

handle_esc(a, block) ==
  IF block \in MovieInfoBlocks THEN reset_movie_info_tabs(pop_navigation_stack(a))
  ELSE IF block \in PromptBlocks
  THEN [pop_navigation_stack(a) EXCEPT !.prompt_confirm = FALSE]
  ELSE a

handle_char_key_event(a, block, key) ==
  IF block \in MovieInfoBlocks
  THEN IF key = "search"
       THEN push_navigation_stack(a, RouteOf("AutomaticallySearchMoviePrompt"))
       ELSE IF key = "refresh"
       THEN push_navigation_stack(a, RouteOf("RefreshAndScanPrompt"))
       ELSE a
  ELSE a

(* --------------------------- block dispatcher ------------------------- *)
\* Option::unwrap_or_default on an Option<Vec<_>>
unwrap_or_default(o) == IF IsSome(o) THEN Unwrap(o) ELSE <<>>

\* &self.items[self.state.selected().unwrap_or(0)]: the index expression
\* panics when the index is not below items.len()
selection_index(t) == IF IsSome(t.selected) THEN Unwrap(t.selected) ELSE 0
selection_in_bounds(t) == selection_index(t) < Len(t.items)
current_selection(t) == t.items[selection_index(t) + 1]

populate_movie_collection_table(a) ==
  LET source == IF a.filtered_collections.items # <<>>
                THEN a.filtered_collections
                ELSE a.collections
  IN IF ~selection_in_bounds(source)
     THEN [a EXCEPT !.panicked = TRUE]
     ELSE [a EXCEPT !.collection_movies =
                      set_items(@, unwrap_or_default(current_selection(source).movies))]

collection_details_arm(a) ==
  LET a1 == populate_movie_collection_table([a EXCEPT !.is_loading = TRUE])
  IN IF a1.panicked THEN a1 ELSE [a1 EXCEPT !.is_loading = FALSE]

\* the Movies arm with its two fetches in the other order
movies_arm_swapped(a) ==
  dispatch_network_event(dispatch_network_event(a, "GetDownloads"), "GetMovies")

movies_arm(a) ==
  dispatch_network_event(dispatch_network_event(a, "GetMovies"), "GetDownloads")

\* the Cast/Crew arm fetching only when both tables are empty
cast_crew_arm_both_empty(a) ==
  IF a.movie_cast.items = <<>> /\ a.movie_crew.items = <<>>
  THEN dispatch_network_event(a, "GetMovieCredits")
  ELSE a

cast_crew_arm(a) ==
  IF a.movie_cast.items = <<>> \/ a.movie_crew.items = <<>>
  THEN dispatch_network_event(a, "GetMovieCredits")
  ELSE a

manual_search_arm(a) ==
  IF a.movie_releases.items = <<>>
  THEN dispatch_network_event(a, "GetReleases")
  ELSE a

\* the match of dispatch_by_radarr_block
dispatch_match(a, block) ==
  CASE block = "Collections" -> dispatch_network_event(a, "GetCollections")
    [] block = "CollectionDetails" -> collection_details_arm(a)
    [] block = "Downloads" -> dispatch_network_event(a, "GetDownloads")
    [] block = "RootFolders" -> dispatch_network_event(a, "GetRootFolders")
    [] block = "Movies" -> movies_arm(a)
    [] block = "AddMovieSearchResults" -> dispatch_network_event(a, "SearchNewMovie")
    [] block \in {"MovieDetails", "FileInfo"} -> dispatch_network_event(a, "GetMovieDetails")
    [] block = "MovieHistory" -> dispatch_network_event(a, "GetMovieHistory")
    [] block \in {"Cast", "Crew"} -> cast_crew_arm(a)
    [] block = "ManualSearch" -> manual_search_arm(a)
    [] OTHER -> a

check_for_prompt_action(a) ==
  IF a.prompt_confirm
  THEN LET a1 == [a EXCEPT !.prompt_confirm = FALSE]
       IN IF IsSome(a1.prompt_confirm_action)
          THEN [dispatch_network_event(a1, Unwrap(a1.prompt_confirm_action))
                  EXCEPT !.should_refresh = TRUE, !.prompt_confirm_action = None]
          ELSE a1
  ELSE a

dispatch_by_radarr_block(a, block) ==
  LET a1 == dispatch_match(a, block)
  IN IF a1.panicked THEN a1 ELSE reset_tick_count(check_for_prompt_action(a1))

(* ------------------------- search and filter -------------------------- *)
\* text is a sequence of characters; these are the characters of the model:
\* two letters in both cases, a third letter and a punctuation mark
LowerOf == [c \in {"a", "A", "b", "B", "c", "z", "!"} |->
              IF c = "A" THEN "a" ELSE IF c = "B" THEN "b" ELSE c]
NonSearchChars == {"!"}

\* str::to_lowercase
to_lowercase(text) == [i \in 1..Len(text) |-> LowerOf[text[i]]]

\* strip_non_search_characters: lowercase, then drop the non-search characters
strip_non_search_characters(text) ==
  SelectSeq(to_lowercase(text), LAMBDA c : c \notin NonSearchChars)

\* str::contains
contains(text, pattern) ==
  \E i \in 0..(Len(text) - Len(pattern)) : SubSeq(text, i + 1, i + Len(pattern)) = pattern

\* Iterator::position over the titles: the index of the first match, if any
position(items, pattern) ==
  LET hits == {i \in 1..Len(items) :
                 contains(strip_non_search_characters(items[i].title), pattern)}
  IN IF hits = {} THEN None
     ELSE Some((CHOOSE i \in hits : \A j \in hits : i <= j) - 1)

\* Iterator::filter(..).cloned().collect(): the matching items, in order
filter_matches_of(items, pattern) ==
  SelectSeq(items, LAMBDA item : contains(strip_non_search_characters(item.title), pattern))

\* StatefulTable::select_index
select_index(t, index) == [t EXCEPT !.selected = index]

\* search_table! that selects the row after the first match
search_table_next_row(a, error_block) ==
  LET search_index == IF IsSome(a.search)
                      THEN position(a.movies.items, to_lowercase(Unwrap(a.search)))
                      ELSE None
      a1 == [a EXCEPT !.search = None,
                      !.is_searching = FALSE,
                      !.should_ignore_quit_key = FALSE]
  IN IF IsSome(search_index)
     THEN [pop_navigation_stack(a1) EXCEPT
             !.movies = select_index(@, Some(Unwrap(search_index) + 1))]
     ELSE pop_and_push_navigation_stack(a1, RouteOf(error_block))

\* search_table!($app, movies, $error_block)
search_table(a, error_block) ==
  LET search_index == IF IsSome(a.search)
                      THEN position(a.movies.items, to_lowercase(Unwrap(a.search)))
                      ELSE None
      a1 == [a EXCEPT !.search = None,
                      !.is_searching = FALSE,
                      !.should_ignore_quit_key = FALSE]
  IN IF IsSome(search_index)
     THEN [pop_navigation_stack(a1) EXCEPT !.movies = select_index(@, search_index)]
     ELSE pop_and_push_navigation_stack(a1, RouteOf(error_block))

\* filter_table!($app, movies, filtered_movies, $error_block)
filter_table(a, error_block) ==
  LET empty_filter == IsSome(a.filter) /\ Unwrap(a.filter) = <<>>
      filter_matches ==
        IF IsSome(a.filter) /\ Unwrap(a.filter) # <<>>
        THEN filter_matches_of(a.movies.items,
                               strip_non_search_characters(Unwrap(a.filter)))
        ELSE <<>>
      a1 == [a EXCEPT !.filter = None,
                      !.is_filtering = FALSE,
                      !.should_ignore_quit_key = FALSE]
  IN IF filter_matches = <<>> /\ ~empty_filter
     THEN pop_and_push_navigation_stack(a1, RouteOf(error_block))
     ELSE IF empty_filter
     THEN pop_navigation_stack(a1)
     ELSE [pop_navigation_stack(a1) EXCEPT
             !.filtered_movies = set_items(@, filter_matches)]

(* -------------------- the current movie and collection ---------------- *)
\* populate_edit_movie_fields: the Movie it takes apart and the edit fields
\* it fills from it (the preference lists, filled from the maps kept with the
\* fetched data, are left out)
populate_edit_movie_fields(a) ==
  LET source == IF a.filtered_movies.items = <<>> THEN a.movies ELSE a.filtered_movies
  IN IF ~selection_in_bounds(source)
     THEN [a EXCEPT !.panicked = TRUE]
     ELSE [a EXCEPT !.edit_path = current_selection(source).path,
                    !.edit_monitored = Some(current_selection(source).monitored)]

populate_edit_collection_fields(a) ==
  LET source == IF a.filtered_collections.items = <<>>
                THEN a.collections
                ELSE a.filtered_collections
  IN IF ~selection_in_bounds(source)
     THEN [a EXCEPT !.panicked = TRUE]
     ELSE [a EXCEPT
             !.edit_path = unwrap_or_default(current_selection(source).root_folder_path),
             !.edit_monitored = Some(current_selection(source).monitored),
             !.edit_search_on_add = Some(current_selection(source).search_on_add)]

\* draw_search_movie_prompt / draw_refresh_and_scan_prompt: the movie title
\* the prompt text names
draw_search_movie_prompt(a) ==
  IF ~selection_in_bounds(a.movies)
  THEN [a EXCEPT !.panicked = TRUE]
  ELSE [a EXCEPT !.frame = Some(current_selection(a.movies).title)]

draw_refresh_and_scan_prompt(a) ==
  IF ~selection_in_bounds(a.movies)
  THEN [a EXCEPT !.panicked = TRUE]
  ELSE [a EXCEPT !.frame = Some(current_selection(a.movies).title)]

(* ---------------------------- wizard steps ---------------------------- *)
\* enum ActiveRadarrBlock of app/radarr.rs, where the step functions live
AllBlocks ==
  {"AddMovieAlreadyInLibrary", "AddMovieSearchInput",
   "AddMovieSearchResults", "AddMoviePrompt",
   "AddMovieSelectMinimumAvailability", "AddMovieSelectQualityProfile",
   "AddMovieSelectMonitor", "AddMovieSelectRootFolder",
   "AddMovieConfirmPrompt", "AddMovieTagsInput",
   "AddMovieEmptySearchResults", "AddRootFolderPrompt",
   "AutomaticallySearchMoviePrompt", "Collections", "CollectionDetails",
   "Cast", "Crew", "DeleteMoviePrompt", "DeleteDownloadPrompt",
   "DeleteRootFolderPrompt", "Downloads", "EditCollectionPrompt",
   "EditCollectionConfirmPrompt", "EditCollectionRootFolderPathInput",
   "EditCollectionSelectMinimumAvailability",
   "EditCollectionSelectQualityProfile", "EditCollectionToggleSearchOnAdd",
   "EditCollectionToggleMonitored", "EditMoviePrompt",
   "EditMovieConfirmPrompt", "EditMoviePathInput",
   "EditMovieSelectMinimumAvailability", "EditMovieSelectQualityProfile",
   "EditMovieTagsInput", "EditMovieToggleMonitored", "FileInfo",
   "FilterCollections", "FilterMovies", "ManualSearch",
   "ManualSearchSortPrompt", "ManualSearchConfirmPrompt", "MovieDetails",
   "MovieHistory", "Movies", "RootFolders", "UpdateAndScanPrompt",
   "UpdateAllCollectionsPrompt", "UpdateAllMoviesPrompt",
   "UpdateDownloadsPrompt", "SearchMovie", "SearchCollection",
   "ViewMovieOverview"}

next_add_movie_prompt_block(block) ==
  CASE block = "AddMovieSelectRootFolder" -> "AddMovieSelectMonitor"
    [] block = "AddMovieSelectMonitor" -> "AddMovieSelectMinimumAvailability"
    [] block = "AddMovieSelectMinimumAvailability" -> "AddMovieSelectQualityProfile"
    [] block = "AddMovieSelectQualityProfile" -> "AddMovieTagsInput"
    [] block = "AddMovieTagsInput" -> "AddMovieConfirmPrompt"
    [] OTHER -> "AddMovieSelectRootFolder"

next_edit_movie_prompt_block(block) ==
  CASE block = "EditMovieToggleMonitored" -> "EditMovieSelectMinimumAvailability"
    [] block = "EditMovieSelectMinimumAvailability" -> "EditMovieSelectQualityProfile"
    [] block = "EditMovieSelectQualityProfile" -> "EditMoviePathInput"
    [] block = "EditMoviePathInput" -> "EditMovieTagsInput"
    [] block = "EditMovieTagsInput" -> "EditMovieConfirmPrompt"
    [] OTHER -> "EditMovieToggleMonitored"

next_edit_collection_prompt_block(block) ==
  CASE block = "EditCollectionToggleMonitored" -> "EditCollectionSelectMinimumAvailability"
    [] block = "EditCollectionSelectMinimumAvailability" -> "EditCollectionSelectQualityProfile"
    [] block = "EditCollectionSelectQualityProfile" -> "EditCollectionRootFolderPathInput"
    [] block = "EditCollectionRootFolderPathInput" -> "EditCollectionToggleSearchOnAdd"
    [] block = "EditCollectionToggleSearchOnAdd" -> "EditCollectionConfirmPrompt"
    [] OTHER -> "EditCollectionToggleMonitored"

\* previous_add_movie_prompt_block without the arm of the first step
previous_add_movie_no_wrap(block) ==
  CASE block = "AddMovieSelectMonitor" -> "AddMovieSelectRootFolder"
    [] block = "AddMovieSelectMinimumAvailability" -> "AddMovieSelectMonitor"
    [] block = "AddMovieSelectQualityProfile" -> "AddMovieSelectMinimumAvailability"
    [] block = "AddMovieTagsInput" -> "AddMovieSelectQualityProfile"
    [] block = "AddMovieConfirmPrompt" -> "AddMovieTagsInput"
    [] OTHER -> "AddMovieSelectRootFolder"

previous_add_movie_prompt_block(block) ==
  CASE block = "AddMovieSelectRootFolder" -> "AddMovieConfirmPrompt"
    [] block = "AddMovieSelectMonitor" -> "AddMovieSelectRootFolder"
    [] block = "AddMovieSelectMinimumAvailability" -> "AddMovieSelectMonitor"
    [] block = "AddMovieSelectQualityProfile" -> "AddMovieSelectMinimumAvailability"
    [] block = "AddMovieTagsInput" -> "AddMovieSelectQualityProfile"
    [] block = "AddMovieConfirmPrompt" -> "AddMovieTagsInput"
    [] OTHER -> "AddMovieSelectRootFolder"

\* previous_edit_movie_prompt_block whose default arm is the confirm prompt
previous_edit_movie_default_confirm(block) ==
  CASE block = "EditMovieToggleMonitored" -> "EditMovieConfirmPrompt"
    [] block = "EditMovieSelectMinimumAvailability" -> "EditMovieToggleMonitored"
    [] block = "EditMovieSelectQualityProfile" -> "EditMovieSelectMinimumAvailability"
    [] block = "EditMoviePathInput" -> "EditMovieSelectQualityProfile"
    [] block = "EditMovieTagsInput" -> "EditMoviePathInput"
    [] block = "EditMovieConfirmPrompt" -> "EditMovieTagsInput"
    [] OTHER -> "EditMovieConfirmPrompt"

previous_edit_movie_prompt_block(block) ==
  CASE block = "EditMovieToggleMonitored" -> "EditMovieConfirmPrompt"
    [] block = "EditMovieSelectMinimumAvailability" -> "EditMovieToggleMonitored"
    [] block = "EditMovieSelectQualityProfile" -> "EditMovieSelectMinimumAvailability"
    [] block = "EditMoviePathInput" -> "EditMovieSelectQualityProfile"
    [] block = "EditMovieTagsInput" -> "EditMoviePathInput"
    [] block = "EditMovieConfirmPrompt" -> "EditMovieTagsInput"
    [] OTHER -> "EditMovieToggleMonitored"

previous_edit_collection_prompt_block(block) ==
  CASE block = "EditCollectionToggleMonitored" -> "EditCollectionConfirmPrompt"
    [] block = "EditCollectionSelectMinimumAvailability" -> "EditCollectionToggleMonitored"
    [] block = "EditCollectionSelectQualityProfile" -> "EditCollectionSelectMinimumAvailability"
    [] block = "EditCollectionRootFolderPathInput" -> "EditCollectionSelectQualityProfile"
    [] block = "EditCollectionToggleSearchOnAdd" -> "EditCollectionRootFolderPathInput"
    [] block = "EditCollectionConfirmPrompt" -> "EditCollectionToggleSearchOnAdd"
    [] OTHER -> "EditCollectionToggleMonitored"

\* BlockSelectionState::new, next, previous, get_active_block
block_selection_new(blocks) == [blocks |-> blocks, index |-> 0]
block_selection_next(t) == [t EXCEPT !.index = (@ + 1) % Len(t.blocks)]
block_selection_previous(t) ==
  [t EXCEPT !.index = IF @ > 0 THEN @ - 1 ELSE Len(t.blocks) - 1]
get_active_block(t) == t.blocks[t.index + 1]

(* ------------------------------ tick pass ----------------------------- *)
\* refresh_metadata that sends the two reference events only
refresh_metadata_reference_only(a) ==
  dispatch_network_event(dispatch_network_event(a, "GetQualityProfiles"), "GetTags")

refresh_metadata(a) ==
  dispatch_network_event(
    dispatch_network_event(
      dispatch_network_event(a, "GetQualityProfiles"), "GetTags"), "GetDownloads")

\* the if is_first_render block of radarr_on_tick
first_render(a, block) ==
  dispatch_by_radarr_block(
    dispatch_network_event(
      dispatch_network_event(
        dispatch_network_event(
          dispatch_network_event(
            dispatch_network_event(a, "GetQualityProfiles"),
            "GetTags"),
          "GetRootFolders"),
        "GetOverview"),
      "GetStatus"),
    block)

\* the if should_refresh block
refresh_if_flagged(a, block) ==
  IF ~a.panicked /\ a.should_refresh THEN dispatch_by_radarr_block(a, block) ELSE a

\* the if is_routing || tick_count % tick_until_poll == 0 block
poll_if_due(a, block) ==
  IF ~a.panicked /\ (a.is_routing \/ a.tick_count % a.tick_until_poll = 0)
  THEN LET a1 == dispatch_by_radarr_block(a, block)
       IN IF a1.panicked THEN a1 ELSE refresh_metadata(a1)
  ELSE a

\* a first render that dispatches for the block before the reference events
radarr_on_tick_block_first(a, block, is_first_render) ==
  poll_if_due(
    refresh_if_flagged(
      IF is_first_render
      THEN LET a1 == dispatch_by_radarr_block(a, block)
           IN IF a1.panicked THEN a1
              ELSE dispatch_network_event(
                     dispatch_network_event(
                       dispatch_network_event(
                         dispatch_network_event(
                           dispatch_network_event(a1, "GetQualityProfiles"),
                           "GetTags"),
                         "GetRootFolders"),
                       "GetOverview"),
                     "GetStatus")
      ELSE a,
      block),
    block)

radarr_on_tick(a, block, is_first_render) ==
  poll_if_due(
    refresh_if_flagged(IF is_first_render THEN first_render(a, block) ELSE a, block),
    block)

(* --------------------- HorizontallyScrollableText --------------------- *)
\* a String is its sequence of chars; String::len, insert and remove count
\* and index bytes of the UTF-8 encoding
TwoByteChars == {"e'"}
len_utf8(c) == IF c \in TwoByteChars THEN 2 ELSE 1

RECURSIVE str_len(_)
str_len(text) ==
  IF text = <<>> THEN 0 ELSE len_utf8(text[1]) + str_len(SubSeq(text, 2, Len(text)))

\* the number of chars that end at or before byte idx
chars_before(text, idx) ==
  Cardinality({k \in 1..Len(text) : str_len(SubSeq(text, 1, k)) <= idx})

is_char_boundary(text, idx) ==
  idx <= str_len(text) /\ str_len(SubSeq(text, 1, chars_before(text, idx))) = idx

\* HorizontallyScrollableText::new; panicked says that a call panicked
text_new(text) == [text |-> text, offset |-> 0, panicked |-> FALSE]

\* String::insert(idx, ch): panics unless idx is a char boundary
string_insert(t, idx, ch) ==
  IF idx < 0 \/ ~is_char_boundary(t.text, idx) THEN [t EXCEPT !.panicked = TRUE]
  ELSE LET k == chars_before(t.text, idx) IN
       [t EXCEPT !.text = SubSeq(@, 1, k) \o <<ch>> \o SubSeq(@, k + 1, Len(@))]

\* String::remove(idx): panics unless idx is below the length and a char boundary
string_remove(t, idx) ==
  IF idx < 0 \/ idx >= str_len(t.text) \/ ~is_char_boundary(t.text, idx)
  THEN [t EXCEPT !.panicked = TRUE]
  ELSE LET k == chars_before(t.text, idx) IN
       [t EXCEPT !.text = SubSeq(@, 1, k) \o SubSeq(@, k + 2, Len(@))]

scroll_left(t) ==
  IF t.offset < str_len(t.text) THEN [t EXCEPT !.offset = @ + 1] ELSE t

scroll_right(t) ==
  IF t.offset > 0 THEN [t EXCEPT !.offset = @ - 1] ELSE t

scroll_home(t) == [t EXCEPT !.offset = str_len(t.text)]

reset_offset(t) == [t EXCEPT !.offset = 0]

\* the marquee advance that restarts one step early, on the last char
scroll_left_or_reset_early(t, width, is_current_selection, can_scroll) ==
  IF can_scroll /\ is_current_selection /\ str_len(t.text) >= width
  THEN IF t.offset + 1 < str_len(t.text) THEN scroll_left(t) ELSE reset_offset(t)
  ELSE IF t.offset # 0 /\ ~is_current_selection THEN reset_offset(t)
  ELSE t

scroll_left_or_reset(t, width, is_current_selection, can_scroll) ==
  IF can_scroll /\ is_current_selection /\ str_len(t.text) >= width
  THEN IF t.offset < str_len(t.text) THEN scroll_left(t) ELSE reset_offset(t)
  ELSE IF t.offset # 0 /\ ~is_current_selection THEN reset_offset(t)
  ELSE t

drain(t) == [reset_offset(t) EXCEPT !.text = <<>>]

pop(t) ==
  IF t.offset < str_len(t.text)
  THEN string_remove(t, str_len(t.text) - t.offset - 1)
  ELSE t

\* usize: text.len() - offset below zero panics on the subtraction
push(t, character) == string_insert(t, str_len(t.text) - t.offset, character)

(* ---------------------------- ScrollableText -------------------------- *)
\* a cast to u16 keeps the low 16 bits
as_u16(n) == n % (2^16)

\* ScrollableText::default() and ScrollableText::with_string on a text of
\* the given lines; panicked says that a call panicked
DefaultScrollableText == [items |-> <<>>, offset |-> 0, panicked |-> FALSE]
with_string(lines) == [items |-> lines, offset |-> 0, panicked |-> FALSE]

\* scroll_down that starts again at the first line after the last
text_scroll_down_wrapping(t) ==
  IF t.items = <<>> THEN t
  ELSE IF t.offset < as_u16(Len(t.items) - 1) THEN [t EXCEPT !.offset = @ + 1]
  ELSE [t EXCEPT !.offset = 0]

\* Scrollable for ScrollableText: scroll_down
text_scroll_down(t) ==
  IF t.items = <<>> THEN t
  ELSE IF t.offset < as_u16(Len(t.items) - 1) THEN [t EXCEPT !.offset = @ + 1]
  ELSE t

\* Scrollable for ScrollableText: scroll_up
text_scroll_up(t) ==
  IF t.items = <<>> THEN t
  ELSE IF t.offset > 0 THEN [t EXCEPT !.offset = @ - 1]
  ELSE t

\* Scrollable for ScrollableText: scroll_to_top
text_scroll_to_top(t) == [t EXCEPT !.offset = 0]

\* Scrollable for ScrollableText: scroll_to_bottom.  With no items the usize
\* subtraction 0 - 1 panics where overflow is checked and wraps where it is
\* not (the low 16 bits of the wrapped value are those of -1); checked says
\* which of the two the build does
text_scroll_to_bottom(t, checked) ==
  IF t.items = <<>> /\ checked THEN [t EXCEPT !.panicked = TRUE]
  ELSE [t EXCEPT !.offset = as_u16(Len(t.items) - 1)]

(* ------------------------------- Network ------------------------------ *)
RequestMethods == {"Get", "Post", "Put", "Delete"}
\* what comes back for a request: the send fails, the status is not a
\* success, or the status is a success with a body that parses or does not
Outcomes == {"send_failed", "non_success", "unparsable", "ok"}
MessageOf(outcome) ==
  CASE outcome = "send_failed" -> <<"Failed to send request.">>
    [] outcome = "non_success" -> <<"Request failed.">>
    [] outcome = "unparsable" -> <<"Failed to parse response!">>
    [] OTHER -> <<>>

\* App::handle_error: the message goes to the error slot
handle_error(a, message) == [a EXCEPT !.error = message]

\* the worker between events: pc is its position, lock the owner of the
\* Mutex around the App ("free", "network" or "ui"), applied and stored
\* whether app_update_fn and handle_error have run for the request at hand,
\* ui the position of the thread that handles keys and ticks
IdleNetwork ==
  [pc |-> "idle", lock |-> "free", method |-> "Get", outcome |-> "pending",
   applied |-> FALSE, stored |-> FALSE, ui |-> "idle"]

\* the positions at which the worker waits for the lock, and the critical
\* section each of them enters
CriticalOf(pc) ==
  CASE pc = "call_api" -> "building"
    [] pc = "lock_update" -> "updating"
    [] pc = "lock_error" -> "storing_error"
    [] pc = "finish" -> "finishing"
    [] OTHER -> pc
LockPoints == {"call_api", "lock_update", "lock_error", "finish"}
\* the positions at which the worker awaits the server
InFlight == {"sending", "parsing", "reading_body"}

\* call_api that returns the request together with the guard
call_api_holding_lock(n) == [n EXCEPT !.pc = "sending"]

\* call_api from the lock on: the RequestBuilder is built and the guard is
\* dropped when the function returns
call_api(n) == [n EXCEPT !.pc = "sending", !.lock = "free"]

\* handle_request once send() has resolved
on_response(n, outcome) ==
  [n EXCEPT !.outcome = outcome,
            !.pc = IF outcome = "send_failed" THEN "lock_error"
                   ELSE IF outcome = "non_success" THEN "reading_body"
                   ELSE IF n.method \in {"Get", "Post"} THEN "parsing"
                   ELSE "finish"]

\* the parse result that is applied whether or not the body parsed
on_parsed_always_ok(n) == [n EXCEPT !.pc = "lock_update"]

\* handle_request once utils::parse_response has resolved
on_parsed(n) ==
  [n EXCEPT !.pc = IF n.outcome = "ok" THEN "lock_update" ELSE "lock_error"]

(* ---------------- specification: a stateful list ---------------------- *)
\* the run of identical consecutive operations that ends with operation op
RunOf(op) ==
  IF last.op = op /\ last.run <= MaxLen
  THEN [n |-> last.run + 1, start |-> last.start]
  ELSE IF last.op = op THEN [n |-> last.run, start |-> last.start]
  ELSE [n |-> 1, start |-> list.selected]

ListStep(op, arg, new) ==
  /\ list' = new
  /\ UNCHANGED app
  /\ last' = [op |-> op, arg |-> arg, pre |-> list,
              run |-> RunOf(op).n, start |-> RunOf(op).start]

ListSetItems == \E items \in ItemVecs : ListStep("set_items", items, set_items(list, items))
ListScrollDown == ListStep("scroll_down", <<>>, scroll_down(list))
ListScrollUp == ListStep("scroll_up", <<>>, scroll_up(list))
ListScrollToTop == ListStep("scroll_to_top", <<>>, scroll_to_top(list))
ListScrollToBottom == ListStep("scroll_to_bottom", <<>>, scroll_to_bottom(list))

ListInit ==
  /\ list = DefaultStateful
  /\ app = DefaultApp
  /\ last = [op |-> "init", arg |-> <<>>, pre |-> DefaultStateful, run |-> 0, start |-> None]

ListNext ==
  \/ ListSetItems
  \/ ListScrollDown
  \/ ListScrollUp
  \/ ListScrollToTop
  \/ ListScrollToBottom

SpecList == ListInit /\ [][ListNext]_vars

(* ---------------- specification: the navigation stack ----------------- *)
\* routes pushed by the free push and pop_and_push operations
NavRoutes ==
  {RouteOf("MovieDetails"), RouteOf("AutomaticallySearchMoviePrompt"),
   RouteWithContext("AddMoviePrompt", "CollectionDetails")}

NavStep(op, arg, new) ==
  /\ app' = new
  /\ last' = [op |-> op, arg |-> arg, pre |-> app.navigation_stack]
  /\ UNCHANGED list

NavPush ==
  \E route \in NavRoutes :
    /\ Len(app.navigation_stack) < MaxDepth
    /\ NavStep("push", route, push_navigation_stack(app, route))
NavPop == NavStep("pop", None, pop_navigation_stack(app))
NavPopAndPush ==
  \E route \in NavRoutes :
    NavStep("pop_and_push", route, pop_and_push_navigation_stack(app, route))
NavChangeTab ==
  \E key \in {"left", "right"} :
    NavStep("change_tab", key, handle_change_tab_left_right_keys(app, key))

NavInit ==
  /\ app = DefaultApp
  /\ list = DefaultStateful
  /\ last = [op |-> "init", arg |-> None, pre |-> <<>>]

NavNext ==
  \/ NavPush
  \/ NavPop
  \/ NavPopAndPush
  \/ NavChangeTab

SpecNav == NavInit /\ [][NavNext]_vars

(* ------------- specifications: handlers and dispatch cycles ----------- *)
\* one dispatch cycle: sent starts empty so that it records this cycle alone
dispatch_cycle(a, block) == dispatch_by_radarr_block([a EXCEPT !.sent = <<>>], block)

\* a step of the application; nothing runs after a panic.  last keeps the
\* operation, the block it ran for, the key, and the state it started from
AppStep(op, block, key, new) ==
  /\ ~app.panicked
  /\ app' = new
  /\ last' = [op |-> op, block |-> block, key |-> key,
              pre |-> [app EXCEPT !.sent = <<>>]]
  /\ UNCHANGED list

current_block == get_current_route(app).block
HandledBlocks == MovieInfoBlocks \cup PromptBlocks

\* the library handler opens the details of the selected movie
OpenMovieDetails ==
  /\ current_block = "Movies"
  /\ AppStep("open", current_block, None,
             push_navigation_stack(app, RouteOf("MovieDetails")))

KeyLeftRight ==
  /\ current_block \in HandledBlocks
  /\ \E key \in {"left", "right"} :
       AppStep("left_right", current_block, Some(key),
               handle_left_right_action(app, current_block, key))

KeySubmit ==
  /\ current_block \in HandledBlocks
  /\ AppStep("submit", current_block, None, handle_submit(app, current_block))

KeyEsc ==
  /\ current_block \in HandledBlocks
  /\ AppStep("esc", current_block, None, handle_esc(app, current_block))

KeyChar ==
  /\ current_block \in HandledBlocks
  /\ \E key \in {"search", "refresh"} :
       AppStep("char", current_block, Some(key),
               handle_char_key_event(app, current_block, key))

\* the tick dispatches for the block of the current route
Tick ==
  AppStep("dispatch", current_block, None, dispatch_cycle(app, current_block))

Init ==
  /\ app = DefaultApp
  /\ list = DefaultStateful
  /\ last = [op |-> "init", block |-> "Movies", key |-> None, pre |-> DefaultApp]

Next ==
  \/ OpenMovieDetails
  \/ KeyLeftRight
  \/ KeySubmit
  \/ KeyEsc
  \/ KeyChar
  \/ Tick

Spec == Init /\ [][Next]_vars

\* tables of fetched rows, built the way the network layer stores them
TablesOf(values) ==
  {set_items(DefaultStateful, v) :
     v \in UNION {[1..n -> values] : n \in 0..MaxRows}}
CreditValues == {1}
CollectionValues == {[movies |-> None], [movies |-> Some(<<1>>)]}

\* the applications the dispatcher is called on: any prompt state, any
\* fill of the tables the dispatcher reads
DispatchInputs ==
  {[DefaultApp EXCEPT !.prompt_confirm = pc,
                      !.prompt_confirm_action = pa,
                      !.movie_cast = cast,
                      !.movie_crew = crew,
                      !.movie_releases = releases,
                      !.collections = collections,
                      !.tick_count = 1] :
     pc \in BOOLEAN,
     pa \in {None} \cup {Some(e) : e \in ActionEvents},
     cast \in TablesOf(CreditValues),
     crew \in TablesOf(CreditValues),
     releases \in TablesOf(CreditValues),
     collections \in TablesOf(CollectionValues)}

Dispatch == \E block \in Blocks : AppStep("dispatch", block, None, dispatch_cycle(app, block))

DispatchInit ==
  /\ app \in DispatchInputs
  /\ list = DefaultStateful
  /\ last = [op |-> "init", block |-> "Movies", key |-> None, pre |-> DefaultApp]

DispatchNext == Dispatch

SpecDispatch == DispatchInit /\ [][DispatchNext]_vars

\* the collections table before and after the collections were fetched
TickCollections ==
  {DefaultStateful, set_items(DefaultStateful, <<[movies |-> Some(<<1>>)]>>)}

\* the applications a tick pass is entered with: any prompt state, refresh
\* flag, routing flag and tick count, with and without collections
TickInputs ==
  {[DefaultApp EXCEPT !.prompt_confirm = pc,
                      !.prompt_confirm_action = pa,
                      !.should_refresh = sr,
                      !.is_routing = ir,
                      !.tick_count = tc,
                      !.collections = collections] :
     pc \in BOOLEAN,
     pa \in {None} \cup {Some(e) : e \in ActionEvents},
     sr \in BOOLEAN,
     ir \in BOOLEAN,
     tc \in 0..MaxTick,
     collections \in TickCollections}

\* one call of radarr_on_tick; sent records the events of this pass alone
TickPass ==
  \E block \in Blocks, is_first_render \in BOOLEAN :
    AppStep("tick", block, Some(is_first_render),
            radarr_on_tick([app EXCEPT !.sent = <<>>], block, is_first_render))

TickInit ==
  /\ app \in TickInputs
  /\ list = DefaultStateful
  /\ last = [op |-> "init", block |-> "Movies", key |-> None, pre |-> DefaultApp]

TickNext == TickPass

SpecTick == TickInit /\ [][TickNext]_vars

(* ---------------- specification: search and filter -------------------- *)
\* the titles of the movies and the texts typed into the search and filter
\* boxes: they differ from one another by case and by punctuation
Titles == {<<"A", "b">>, <<"a", "!", "b">>, <<"c">>}
Queries == {<<>>, <<"a", "b">>, <<"A", "B">>, <<"a", "!", "b">>, <<"!">>, <<"z">>}
MovieVecs == UNION {[1..n -> {[title |-> t] : t \in Titles}] : n \in 0..MaxMovies}

\* a table holding the vector, with any of its rows selected
TablesWith(v) ==
  IF Len(v) = 0 THEN {set_items(DefaultStateful, v)}
  ELSE {select_index(set_items(DefaultStateful, v), Some(i)) : i \in 0..(Len(v) - 1)}

\* the applications the two protocols run on: the input box on top of the
\* library, a stored text or none, any movies, and a filtered table left by
\* an earlier filter or none
SearchInputs ==
  {[DefaultApp EXCEPT
      !.navigation_stack = <<DEFAULT_ROUTE, RouteOf(input)>>,
      !.search = IF input = "SearchMovie" THEN text ELSE None,
      !.filter = IF input = "FilterMovies" THEN text ELSE None,
      !.is_searching = (input = "SearchMovie"),
      !.is_filtering = (input = "FilterMovies"),
      !.should_ignore_quit_key = TRUE,
      !.movies = movies,
      !.filtered_movies = filtered] :
     input \in {"SearchMovie", "FilterMovies"},
     text \in {None} \cup {Some(q) : q \in Queries},
     movies \in UNION {TablesWith(v) : v \in MovieVecs},
     filtered \in {DefaultStateful}
                    \cup {set_items(DefaultStateful, <<[title |-> t]>>) : t \in Titles}}

SearchSubmit ==
  /\ current_block = "SearchMovie"
  /\ AppStep("search", current_block, None, search_table(app, "SearchMovieError"))

FilterSubmit ==
  /\ current_block = "FilterMovies"
  /\ AppStep("filter", current_block, None, filter_table(app, "FilterMoviesError"))

SearchInit ==
  /\ app \in SearchInputs
  /\ list = DefaultStateful
  /\ last = [op |-> "init", block |-> "Movies", key |-> None, pre |-> DefaultApp]

SearchNext == SearchSubmit \/ FilterSubmit

SpecSearch == SearchInit /\ [][SearchNext]_vars

(* ------------- specification: the current movie and collection ------- *)
\* fetched movies and collections that differ in every field that is read
MovieValues ==
  {[title |-> <<"A", "b">>, path |-> <<"a">>, monitored |-> TRUE],
   [title |-> <<"c">>, path |-> <<"c">>, monitored |-> FALSE]}
CollectionRecords ==
  {[movies |-> Some(<<1>>), root_folder_path |-> Some(<<"a">>),
    monitored |-> TRUE, search_on_add |-> TRUE],
   [movies |-> None, root_folder_path |-> None,
    monitored |-> FALSE, search_on_add |-> FALSE]}
MovieTables ==
  UNION {TablesWith(v) : v \in UNION {[1..n -> MovieValues] : n \in 0..MaxMovies}}
CollectionTables ==
  UNION {TablesWith(v) : v \in UNION {[1..n -> CollectionRecords] : n \in 0..MaxRows}}

\* the applications the operations run on: any movies with any filtered
\* movies, or any collections with any filtered collections
SelectInputs ==
  {[DefaultApp EXCEPT !.movies = m, !.filtered_movies = fm] :
     m \in MovieTables, fm \in MovieTables}
    \cup {[DefaultApp EXCEPT !.collections = c, !.filtered_collections = fc] :
            c \in CollectionTables, fc \in CollectionTables}

PopulateEditMovie ==
  AppStep("populate_edit_movie", current_block, None, populate_edit_movie_fields(app))

PopulateEditCollection ==
  AppStep("populate_edit_collection", current_block, None,
          populate_edit_collection_fields(app))

PopulateCollectionTable ==
  AppStep("populate_collection_table", current_block, None,
          populate_movie_collection_table(app))

DrawSearchMoviePrompt ==
  AppStep("draw_prompt", "AutomaticallySearchMoviePrompt", None,
          draw_search_movie_prompt(app))

DrawRefreshAndScanPrompt ==
  AppStep("draw_prompt", "RefreshAndScanPrompt", None,
          draw_refresh_and_scan_prompt(app))

\* a dispatch cycle while the details of the current collection are shown
DispatchCollectionDetails ==
  AppStep("dispatch", "CollectionDetails", None, dispatch_cycle(app, "CollectionDetails"))

SelectInit ==
  /\ app \in SelectInputs
  /\ list = DefaultStateful
  /\ last = [op |-> "init", block |-> "Movies", key |-> None, pre |-> DefaultApp]

SelectNext ==
  \/ PopulateEditMovie
  \/ PopulateEditCollection
  \/ PopulateCollectionTable
  \/ DispatchCollectionDetails
  \/ DrawSearchMoviePrompt
  \/ DrawRefreshAndScanPrompt

SpecSelect == SelectInit /\ [][SelectNext]_vars

(* ---------------- specification: wizard steps ------------------------- *)
\* the selection blocks of the wizards, in order
ADD_MOVIE_SELECTION_BLOCKS ==
  <<"AddMovieSelectRootFolder", "AddMovieSelectMonitor",
    "AddMovieSelectMinimumAvailability", "AddMovieSelectQualityProfile",
    "AddMovieTagsInput", "AddMovieConfirmPrompt">>
EDIT_MOVIE_SELECTION_BLOCKS ==
  <<"EditMovieToggleMonitored", "EditMovieSelectMinimumAvailability",
    "EditMovieSelectQualityProfile", "EditMoviePathInput",
    "EditMovieTagsInput", "EditMovieConfirmPrompt">>
EDIT_COLLECTION_SELECTION_BLOCKS ==
  <<"EditCollectionToggleMonitored", "EditCollectionSelectMinimumAvailability",
    "EditCollectionSelectQualityProfile", "EditCollectionRootFolderPathInput",
    "EditCollectionToggleSearchOnAdd", "EditCollectionConfirmPrompt">>

\* the block lists a BlockSelectionState is built on: the three lists and
\* the short lists that begin one of them
SelectionBlockLists ==
  {ADD_MOVIE_SELECTION_BLOCKS, EDIT_MOVIE_SELECTION_BLOCKS,
   EDIT_COLLECTION_SELECTION_BLOCKS}
    \cup {SubSeq(ADD_MOVIE_SELECTION_BLOCKS, 1, n) : n \in 1..MaxLen}

\* the longest run of one operation that is counted
MaxRun == Len(ADD_MOVIE_SELECTION_BLOCKS) + 1

\* a call on the wizard state (the selected block and a BlockSelectionState);
\* last keeps the operation, the state before it, the length of the run of
\* this operation and the blocks the run went through
WizardStep(op, new) ==
  /\ list' = new
  /\ UNCHANGED app
  /\ last' = [op |-> op, pre |-> list,
              run |-> IF last.op = op
                      THEN IF last.run < MaxRun THEN last.run + 1 ELSE MaxRun
                      ELSE 1,
              trail |-> IF last.op = op
                        THEN IF last.run < MaxRun
                             THEN Append(last.trail, new.selected_block)
                             ELSE last.trail
                        ELSE <<list.selected_block, new.selected_block>>]

NextAddMovie ==
  WizardStep("next_add_movie",
             [list EXCEPT !.selected_block = next_add_movie_prompt_block(@)])
PreviousAddMovie ==
  WizardStep("previous_add_movie",
             [list EXCEPT !.selected_block = previous_add_movie_prompt_block(@)])
NextEditMovie ==
  WizardStep("next_edit_movie",
             [list EXCEPT !.selected_block = next_edit_movie_prompt_block(@)])
PreviousEditMovie ==
  WizardStep("previous_edit_movie",
             [list EXCEPT !.selected_block = previous_edit_movie_prompt_block(@)])
NextEditCollection ==
  WizardStep("next_edit_collection",
             [list EXCEPT !.selected_block = next_edit_collection_prompt_block(@)])
PreviousEditCollection ==
  WizardStep("previous_edit_collection",
             [list EXCEPT !.selected_block = previous_edit_collection_prompt_block(@)])
SelectionNext ==
  WizardStep("selection_next",
             [list EXCEPT !.selection = block_selection_next(@)])
SelectionPrevious ==
  WizardStep("selection_previous",
             [list EXCEPT !.selection = block_selection_previous(@)])

WizardInit ==
  /\ list \in {[selected_block |-> b, selection |-> block_selection_new(blocks)] :
                 b \in AllBlocks, blocks \in SelectionBlockLists}
  /\ app = DefaultApp
  /\ last = [op |-> "init", pre |-> list, run |-> 0, trail |-> <<>>]

WizardNext ==
  \/ NextAddMovie
  \/ PreviousAddMovie
  \/ NextEditMovie
  \/ PreviousEditMovie
  \/ NextEditCollection
  \/ PreviousEditCollection
  \/ SelectionNext
  \/ SelectionPrevious

SpecWizard == WizardInit /\ [][WizardNext]_vars

(* ---------------- specification: tab states --------------------------- *)
\* the tab vectors a TabState is built with: the two of RadarrData and the
\* shorter vectors that begin one of them
TabRoutesOf(blocks) == [i \in 1..Len(blocks) |-> RouteOf(blocks[i])]
TabLists ==
  {TabRoutesOf(SubSeq(MainTabBlocks, 1, n)) : n \in 1..Len(MainTabBlocks)}
    \cup {TabRoutesOf(SubSeq(MovieInfoTabBlocks, 1, n)) : n \in 1..Len(MovieInfoTabBlocks)}

\* a call on the free-standing TabState (list) or a key on the application's
\* tabs (app); last keeps the operation, its key and both values it started from
TabStep(op, key, new_tabs, new_app) ==
  /\ list' = new_tabs
  /\ app' = new_app
  /\ last' = [op |-> op, key |-> key, pre |-> list, pre_app |-> app]

TabStateNext ==
  TabStep("next", None, [list EXCEPT !.index = tab_next(@, Len(list.tabs))], app)
TabStatePrevious ==
  TabStep("previous", None, [list EXCEPT !.index = tab_previous(@, Len(list.tabs))], app)
\* left / right while one of the main tabs is the current route
MainTabsKey ==
  /\ current_block \in {MainTabBlocks[i] : i \in 1..Len(MainTabBlocks)}
  /\ \E key \in {"left", "right"} :
       TabStep("main_tabs_key", Some(key), list,
               handle_change_tab_left_right_keys(app, key))
\* left / right while one of the six movie-info tabs is the current route
MovieInfoTabsKey ==
  /\ current_block \in MovieInfoBlocks
  /\ \E key \in {"left", "right"} :
       TabStep("movie_info_tabs_key", Some(key), list,
               handle_left_right_action(app, current_block, key))
TabsOpenMovieDetails ==
  /\ current_block = "Movies"
  /\ TabStep("open", None, list, push_navigation_stack(app, RouteOf("MovieDetails")))
\* Escape on a movie-info tab pops the route and calls reset_movie_info_tabs
TabsEsc ==
  /\ current_block \in MovieInfoBlocks
  /\ TabStep("esc", None, list, handle_esc(app, current_block))

TabsInit ==
  /\ list \in {tab_state_new(tabs) : tabs \in TabLists}
  /\ app = DefaultApp
  /\ last = [op |-> "init", key |-> None, pre |-> list, pre_app |-> app]

TabsNext ==
  \/ TabStateNext
  \/ TabStatePrevious
  \/ MainTabsKey
  \/ MovieInfoTabsKey
  \/ TabsOpenMovieDetails
  \/ TabsEsc

SpecTabs == TabsInit /\ [][TabsNext]_vars

(* ------------- specification: horizontally scrollable text ------------ *)
TextChars == {"a", "e'"}
Texts == UNION {[1..n -> TextChars] : n \in 0..MaxText}
\* the column widths the renderer passes to the marquee
Widths == 0..(MaxText + 1)

\* whether scroll_left_or_reset takes its marquee branch
is_marquee(t, width, is_current_selection, can_scroll) ==
  can_scroll /\ is_current_selection /\ str_len(t.text) >= width

\* a call on the text; nothing runs after a panic.  op_before and before are
\* the call that came before this one and the text it began with; run counts the marquee
\* advances that followed one another, up to one full round and one more,
\* and start is the offset the first of them began with
TextStep(op, arg, new) ==
  /\ ~list.panicked
  /\ list' = new
  /\ UNCHANGED app
  /\ last' = [op |-> op, arg |-> arg, pre |-> list,
              op_before |-> last.op, before |-> last.pre,
              run |-> IF op # "marquee" THEN 0
                      ELSE IF last.op # "marquee" THEN 1
                      ELSE IF last.run <= str_len(list.text) + 1 THEN last.run + 1
                      ELSE last.run,
              start |-> IF op = "marquee" /\ last.op = "marquee" THEN last.start
                        ELSE list.offset]

TextScrollLeft == TextStep("scroll_left", None, scroll_left(list))
TextScrollRight == TextStep("scroll_right", None, scroll_right(list))
TextScrollHome == TextStep("scroll_home", None, scroll_home(list))
TextResetOffset == TextStep("reset_offset", None, reset_offset(list))
TextScrollLeftOrReset ==
  \E width \in Widths, is_current_selection \in BOOLEAN, can_scroll \in BOOLEAN :
    TextStep(IF is_marquee(list, width, is_current_selection, can_scroll)
             THEN "marquee" ELSE "scroll_left_or_reset",
             <<width, is_current_selection, can_scroll>>,
             scroll_left_or_reset(list, width, is_current_selection, can_scroll))
TextPush ==
  \E character \in TextChars :
    /\ Len(list.text) < MaxText
    /\ TextStep("push", character, push(list, character))
TextPop == TextStep("pop", None, pop(list))
TextDrain == TextStep("drain", None, drain(list))

TextInit ==
  /\ list \in {text_new(text) : text \in Texts}
  /\ app = DefaultApp
  /\ last = [op |-> "init", arg |-> None, pre |-> list,
             op_before |-> "init", before |-> list, run |-> 0, start |-> 0]

TextNext ==
  \/ TextScrollLeft
  \/ TextScrollRight
  \/ TextScrollHome
  \/ TextResetOffset
  \/ TextScrollLeftOrReset
  \/ TextPush
  \/ TextPop
  \/ TextDrain

SpecText == TextInit /\ [][TextNext]_vars

(* ------------- specification: a table in any state -------------------- *)
\* every value of the two public fields: any items with any selection,
\* in range or not (select_index stores whatever index it is given)
Selections == {None} \cup {Some(i) : i \in 0..MaxLen}
AnyStateful == [items : ItemVecs, selected : Selections]

\* repeat says that the call repeats the call before it, argument included
TableStep(op, arg, new) ==
  /\ list' = new
  /\ UNCHANGED app
  /\ last' = [op |-> op, arg |-> arg, pre |-> list,
              repeat |-> last.op = op /\ last.arg = arg]

TableSetItems == \E items \in ItemVecs : TableStep("set_items", items, set_items(list, items))
TableSelectIndex ==
  \E index \in Selections : TableStep("select_index", index, select_index(list, index))
TableScrollDown == TableStep("scroll_down", None, scroll_down(list))
TableScrollUp == TableStep("scroll_up", None, scroll_up(list))
TableScrollToTop == TableStep("scroll_to_top", None, scroll_to_top(list))
TableScrollToBottom == TableStep("scroll_to_bottom", None, scroll_to_bottom(list))

TableInit ==
  /\ list \in AnyStateful
  /\ app = DefaultApp
  /\ last = [op |-> "init", arg |-> None, pre |-> list, repeat |-> FALSE]

TableNext ==
  \/ TableSetItems
  \/ TableSelectIndex
  \/ TableScrollDown
  \/ TableScrollUp
  \/ TableScrollToTop
  \/ TableScrollToBottom

SpecTable == TableInit /\ [][TableNext]_vars

(* ---------------- specification: a scrollable text pane --------------- *)
\* the texts of a pane: no text yet, or one to MaxLines lines
LineVecs == {[i \in 1..n |-> i] : n \in 1..MaxLines}

\* a call on the pane; nothing runs after a panic
PaneStep(op, new) ==
  /\ ~list.panicked
  /\ list' = new
  /\ UNCHANGED app
  /\ last' = [op |-> op, pre |-> list]

PaneScrollDown == PaneStep("scroll_down", text_scroll_down(list))
PaneScrollUp == PaneStep("scroll_up", text_scroll_up(list))
PaneScrollToTop == PaneStep("scroll_to_top", text_scroll_to_top(list))
PaneScrollToBottom ==
  \E checked \in BOOLEAN :
    PaneStep("scroll_to_bottom", text_scroll_to_bottom(list, checked))

PaneInit ==
  /\ list \in {DefaultScrollableText} \cup {with_string(lines) : lines \in LineVecs}
  /\ app = DefaultApp
  /\ last = [op |-> "init", pre |-> list]

PaneNext ==
  \/ PaneScrollDown
  \/ PaneScrollUp
  \/ PaneScrollToTop
  \/ PaneScrollToBottom

SpecPane == PaneInit /\ [][PaneNext]_vars

(* ---------------- specification: the network worker ------------------- *)
\* the events the thread of keys and ticks dispatches here
NetworkEvents == {"GetMovies", "RefreshAndScan"}

\* a step of the worker or of the thread of keys and ticks; list is the
\* worker and the lock, app the App behind the lock, app.sent the channel
NetStep(op, new_net, new_app) ==
  /\ list' = new_net
  /\ app' = new_app
  /\ last' = [op |-> op, pre |-> list, pre_app |-> app]

\* handle_network_event takes an event off the channel and handle_request
\* starts with any method
NetReceive ==
  /\ list.pc = "idle"
  /\ app.sent # <<>>
  /\ \E method \in RequestMethods :
       NetStep("receive",
               [list EXCEPT !.pc = "call_api", !.method = method,
                            !.outcome = "pending", !.applied = FALSE,
                            !.stored = FALSE],
               [app EXCEPT !.sent = Tail(@)])
\* self.app.lock().await resolves for the worker
NetLock ==
  /\ list.pc \in LockPoints
  /\ list.lock = "free"
  /\ NetStep("lock", [list EXCEPT !.pc = CriticalOf(@), !.lock = "network"], app)
NetBuildRequest ==
  /\ list.pc = "building"
  /\ NetStep("build", call_api(list), app)
NetSendResolves ==
  /\ list.pc = "sending"
  /\ \E outcome \in Outcomes : NetStep("send", on_response(list, outcome), app)
NetParseResolves ==
  /\ list.pc = "parsing"
  /\ NetStep("parse", on_parsed(list), app)
NetErrorBodyRead ==
  /\ list.pc = "reading_body"
  /\ NetStep("read_body", [list EXCEPT !.pc = "lock_error"], app)
\* app_update_fn(value, app): the guard moves into the closure and drops there
NetApplyUpdate ==
  /\ list.pc = "updating"
  /\ NetStep("update",
             [list EXCEPT !.pc = "finish", !.lock = "free", !.applied = TRUE], app)
NetStoreError ==
  /\ list.pc = "storing_error"
  /\ NetStep("store_error",
             [list EXCEPT !.pc = "finish", !.lock = "free", !.stored = TRUE],
             handle_error(app, MessageOf(list.outcome)))
\* the end of handle_network_event
NetFinish ==
  /\ list.pc = "finishing"
  /\ NetStep("finish", [list EXCEPT !.pc = "idle", !.lock = "free"],
             [app EXCEPT !.is_loading = FALSE])

\* the thread of keys and ticks takes the lock for one key or one tick
UiLock ==
  /\ list.ui = "idle"
  /\ list.lock = "free"
  /\ NetStep("ui_lock", [list EXCEPT !.ui = "locked", !.lock = "ui"], app)
UiDispatch ==
  /\ list.ui = "locked"
  /\ Len(app.sent) < MaxQueue
  /\ \E event \in NetworkEvents :
       NetStep("ui_dispatch", [list EXCEPT !.ui = "idle", !.lock = "free"],
               dispatch_network_event(app, event))
UiKey ==
  /\ list.ui = "locked"
  /\ NetStep("ui_key", [list EXCEPT !.ui = "idle", !.lock = "free"],
             handle_prompt_toggle(app, "left"))

NetInit ==
  /\ list = IdleNetwork
  /\ app = DefaultApp
  /\ last = [op |-> "init", pre |-> list, pre_app |-> app]

NetNext ==
  \/ NetReceive
  \/ NetLock
  \/ NetBuildRequest
  \/ NetSendResolves
  \/ NetParseResolves
  \/ NetErrorBodyRead
  \/ NetApplyUpdate
  \/ NetStoreError
  \/ NetFinish
  \/ UiLock
  \/ UiDispatch
  \/ UiKey

SpecNetwork == NetInit /\ [][NetNext]_vars

(* ---------------- specification: prompts and dispatch cycles ---------- *)
\* a key or a tick of the movie-details popup.  On top of what AppStep
\* keeps, owed is the sequence of actions submitted with yes since the last
\* dispatch cycle, owed_before its value before this step, and declined says
\* that the last prompt submitted was submitted with no
PromptStep(op, block, key, new) ==
  /\ ~app.panicked
  /\ app' = new
  /\ UNCHANGED list
  /\ last' = [op |-> op, block |-> block, key |-> key,
              pre |-> [app EXCEPT !.sent = <<>>],
              owed_before |-> last.owed,
              owed |-> IF op = "submit" /\ block \in PromptBlocks /\ app.prompt_confirm
                       THEN Append(last.owed, Unwrap(new.prompt_confirm_action))
                       ELSE IF op = "dispatch" THEN <<>>
                       ELSE last.owed,
              declined |-> IF op = "submit" /\ block \in PromptBlocks
                           THEN ~app.prompt_confirm
                           ELSE last.declined]

PromptOpenMovieDetails ==
  /\ current_block = "Movies"
  /\ PromptStep("open", current_block, None,
                push_navigation_stack(app, RouteOf("MovieDetails")))
PromptKeyLeftRight ==
  /\ current_block \in HandledBlocks
  /\ \E key \in {"left", "right"} :
       PromptStep("left_right", current_block, Some(key),
                  handle_left_right_action(app, current_block, key))
PromptKeySubmit ==
  /\ current_block \in HandledBlocks
  /\ app.prompt_confirm => Len(last.owed) < MaxOwed
  /\ PromptStep("submit", current_block, None, handle_submit(app, current_block))
PromptKeyEsc ==
  /\ current_block \in HandledBlocks
  /\ PromptStep("esc", current_block, None, handle_esc(app, current_block))
PromptKeyChar ==
  /\ current_block \in HandledBlocks
  /\ \E key \in {"search", "refresh"} :
       PromptStep("char", current_block, Some(key),
                  handle_char_key_event(app, current_block, key))
PromptTick ==
  PromptStep("dispatch", current_block, None, dispatch_cycle(app, current_block))

PromptInit ==
  /\ app = DefaultApp
  /\ list = DefaultStateful
  /\ last = [op |-> "init", block |-> "Movies", key |-> None, pre |-> DefaultApp,
             owed_before |-> <<>>, owed |-> <<>>, declined |-> FALSE]

PromptNext ==
  \/ PromptOpenMovieDetails
  \/ PromptKeyLeftRight
  \/ PromptKeySubmit
  \/ PromptKeyEsc
  \/ PromptKeyChar
  \/ PromptTick

SpecPrompt == PromptInit /\ [][PromptNext]_vars

(* ------------- specification: fetch results and key events ------------ *)
\* the collection a successful GetCollections brings
FetchedCollection ==
  [movies |-> Some(<<1>>), root_folder_path |-> Some(<<"a">>),
   monitored |-> TRUE, search_on_add |-> TRUE]

\* the success payload of an event goes to the matching field of the data;
\* the rows of a fetch for a movie are written as that movie
apply_response(a, event, movie) ==
  CASE event = "GetMovieCredits" ->
         [a EXCEPT !.movie_cast = set_items(@, <<movie>>),
                   !.movie_crew = set_items(@, <<movie>>)]
    [] event = "GetReleases" -> [a EXCEPT !.movie_releases = set_items(@, <<movie>>)]
    [] event = "GetCollections" ->
         [a EXCEPT !.collections = set_items(@, <<FetchedCollection>>)]
    [] OTHER -> a

\* the worker between events, with the event at hand and the movie its
\* request was built for
IdleWorker == [pc |-> "idle", event |-> "GetMovies", movie |-> 0]

\* the network events that were sent and are not yet handled to the end
pending_events(a, worker) ==
  IF worker.pc = "idle" THEN a.sent ELSE <<worker.event>> \o a.sent

\* a step of the worker or a key or tick; movie is the movie whose details
\* were opened last, closed says that Escape closed the details since
FetchStep(op, block, new_worker, new_app, movie, closed) ==
  /\ ~app.panicked
  /\ list' = new_worker
  /\ app' = new_app
  /\ last' = [op |-> op, movie |-> movie, closed |-> closed]

\* handle_network_event takes the event off the channel and builds the
\* request for the movie that is selected at that moment
FetchReceive ==
  /\ list.pc = "idle"
  /\ app.sent # <<>>
  /\ FetchStep("receive", current_block,
               [pc |-> "awaiting", event |-> Head(app.sent), movie |-> last.movie],
               [app EXCEPT !.sent = Tail(@)], last.movie, last.closed)
\* the response arrives: a success is applied, a failure stored
FetchRespond ==
  /\ list.pc = "awaiting"
  /\ \E ok \in BOOLEAN :
       FetchStep("respond", current_block, [list EXCEPT !.pc = "finishing"],
                 IF ok THEN apply_response(app, list.event, list.movie)
                 ELSE handle_error(app, MessageOf("failed")),
                 last.movie, last.closed)
\* the end of handle_network_event
FetchFinish ==
  /\ list.pc = "finishing"
  /\ FetchStep("finish", current_block, IdleWorker,
               [app EXCEPT !.is_loading = FALSE], last.movie, last.closed)

FetchMainTabsKey ==
  /\ current_block \in {MainTabBlocks[i] : i \in 1..Len(MainTabBlocks)}
  /\ \E key \in {"left", "right"} :
       FetchStep("main_tab", current_block, list,
                 handle_change_tab_left_right_keys(app, key), last.movie, last.closed)
FetchOpenMovieDetails ==
  /\ current_block = "Movies"
  /\ \E movie \in 1..MaxMovies :
       FetchStep("open", current_block, list,
                 push_navigation_stack(app, RouteOf("MovieDetails")), movie, FALSE)
FetchOpenCollectionDetails ==
  /\ current_block = "Collections"
  /\ FetchStep("open_collection", current_block, list,
               push_navigation_stack(app, RouteOf("CollectionDetails")),
               last.movie, last.closed)
FetchKeyLeftRight ==
  /\ current_block \in MovieInfoBlocks
  /\ \E key \in {"left", "right"} :
       FetchStep("left_right", current_block, list,
                 handle_left_right_action(app, current_block, key),
                 last.movie, last.closed)
FetchKeyEsc ==
  \/ /\ current_block \in MovieInfoBlocks
     /\ FetchStep("esc", current_block, list, handle_esc(app, current_block),
                  last.movie, TRUE)
  \/ /\ current_block = "CollectionDetails"
     /\ FetchStep("esc", current_block, list, pop_navigation_stack(app),
                  last.movie, last.closed)
\* a dispatch cycle for the current block; the events go to the channel
FetchTick ==
  /\ Len(pending_events(app, list)) < MaxQueue
  /\ FetchStep("dispatch", current_block, list,
               dispatch_by_radarr_block(app, current_block), last.movie, last.closed)

FetchInit ==
  /\ app = DefaultApp
  /\ list = IdleWorker
  /\ last = [op |-> "init", movie |-> 0, closed |-> FALSE]

FetchNext ==
  \/ FetchReceive
  \/ FetchRespond
  \/ FetchFinish
  \/ FetchMainTabsKey
  \/ FetchOpenMovieDetails
  \/ FetchOpenCollectionDetails
  \/ FetchKeyLeftRight
  \/ FetchKeyEsc
  \/ FetchTick

SpecFetch == FetchInit /\ [][FetchNext]_vars


(* ------------- specification: block groups and wizard steps ----------- *)
\* enum ActiveRadarrBlock of the radarr data
ActiveRadarrBlock ==
  {"AddMovieAlreadyInLibrary", "AddMovieSearchInput", "AddMovieSearchResults",
   "AddMoviePrompt", "AddMovieSelectMinimumAvailability",
   "AddMovieSelectQualityProfile", "AddMovieSelectMonitor", "AddMovieSelectRootFolder",
   "AddMovieConfirmPrompt", "AddMovieTagsInput", "AddMovieEmptySearchResults",
   "AddRootFolderPrompt", "AutomaticallySearchMoviePrompt", "Blocklist",
   "BlocklistClearAllItemsPrompt", "BlocklistItemDetails", "BlocklistSortPrompt",
   "Collections", "CollectionsSortPrompt", "CollectionDetails", "Cast", "Crew",
   "DeleteBlocklistItemPrompt", "DeleteDownloadPrompt", "DeleteIndexerPrompt",
   "DeleteMoviePrompt", "DeleteMovieConfirmPrompt", "DeleteMovieToggleDeleteFile",
   "DeleteMovieToggleAddListExclusion", "DeleteRootFolderPrompt", "Downloads",
   "EditCollectionPrompt", "EditCollectionConfirmPrompt",
   "EditCollectionRootFolderPathInput", "EditCollectionSelectMinimumAvailability",
   "EditCollectionSelectQualityProfile", "EditCollectionToggleSearchOnAdd",
   "EditCollectionToggleMonitored", "EditIndexerPrompt", "EditIndexerConfirmPrompt",
   "EditIndexerApiKeyInput", "EditIndexerNameInput", "EditIndexerSeedRatioInput",
   "EditIndexerToggleEnableRss", "EditIndexerToggleEnableAutomaticSearch",
   "EditIndexerToggleEnableInteractiveSearch", "EditIndexerPriorityInput",
   "EditIndexerUrlInput", "EditIndexerTagsInput", "EditMoviePrompt",
   "EditMovieConfirmPrompt", "EditMoviePathInput", "EditMovieSelectMinimumAvailability",
   "EditMovieSelectQualityProfile", "EditMovieTagsInput", "EditMovieToggleMonitored",
   "FileInfo", "FilterCollections", "FilterCollectionsError", "FilterMovies",
   "FilterMoviesError", "Indexers", "AllIndexerSettingsPrompt",
   "IndexerSettingsAvailabilityDelayInput", "IndexerSettingsConfirmPrompt",
   "IndexerSettingsMaximumSizeInput", "IndexerSettingsMinimumAgeInput",
   "IndexerSettingsRetentionInput", "IndexerSettingsRssSyncIntervalInput",
   "IndexerSettingsToggleAllowHardcodedSubs", "IndexerSettingsTogglePreferIndexerFlags",
   "IndexerSettingsWhitelistedSubtitleTagsInput", "ManualSearch",
   "ManualSearchSortPrompt", "ManualSearchConfirmPrompt", "MovieDetails",
   "MovieHistory", "Movies", "MoviesSortPrompt", "RootFolders", "System", "SystemLogs",
   "SystemQueuedEvents", "SystemTasks", "SystemTaskStartConfirmPrompt", "SystemUpdates",
   "TestIndexer", "TestAllIndexers", "UpdateAndScanPrompt",
   "UpdateAllCollectionsPrompt", "UpdateAllMoviesPrompt", "UpdateDownloadsPrompt",
   "SearchCollection", "SearchCollectionError", "SearchMovie", "SearchMovieError",
   "ViewMovieOverview"}

\* the named block groups, as sets
LIBRARY_BLOCKS ==
  {"Movies", "MoviesSortPrompt", "SearchMovie", "SearchMovieError", "FilterMovies",
   "FilterMoviesError", "UpdateAllMoviesPrompt"}
COLLECTIONS_BLOCKS ==
  {"Collections", "CollectionsSortPrompt", "SearchCollection", "SearchCollectionError",
   "FilterCollections", "FilterCollectionsError", "UpdateAllCollectionsPrompt"}
INDEXERS_BLOCKS ==
  {"DeleteIndexerPrompt", "Indexers", "TestIndexer"}
ROOT_FOLDERS_BLOCKS ==
  {"RootFolders", "AddRootFolderPrompt", "DeleteRootFolderPrompt"}
BLOCKLIST_BLOCKS ==
  {"Blocklist", "BlocklistItemDetails", "DeleteBlocklistItemPrompt",
   "BlocklistClearAllItemsPrompt", "BlocklistSortPrompt"}
ADD_MOVIE_BLOCKS ==
  {"AddMovieSearchInput", "AddMovieSearchResults", "AddMovieEmptySearchResults",
   "AddMoviePrompt", "AddMovieSelectMinimumAvailability", "AddMovieSelectMonitor",
   "AddMovieSelectQualityProfile", "AddMovieSelectRootFolder",
   "AddMovieAlreadyInLibrary", "AddMovieTagsInput"}
EDIT_COLLECTION_BLOCKS ==
  {"EditCollectionPrompt", "EditCollectionConfirmPrompt",
   "EditCollectionRootFolderPathInput", "EditCollectionSelectMinimumAvailability",
   "EditCollectionSelectQualityProfile", "EditCollectionToggleSearchOnAdd",
   "EditCollectionToggleMonitored"}
EDIT_MOVIE_BLOCKS ==
  {"EditMoviePrompt", "EditMovieConfirmPrompt", "EditMoviePathInput",
   "EditMovieSelectMinimumAvailability", "EditMovieSelectQualityProfile",
   "EditMovieTagsInput", "EditMovieToggleMonitored"}
DOWNLOADS_BLOCKS ==
  {"Downloads", "DeleteDownloadPrompt", "UpdateDownloadsPrompt"}
MOVIE_DETAILS_BLOCKS ==
  {"MovieDetails", "MovieHistory", "FileInfo", "Cast", "Crew",
   "AutomaticallySearchMoviePrompt", "UpdateAndScanPrompt", "ManualSearch",
   "ManualSearchSortPrompt", "ManualSearchConfirmPrompt"}
COLLECTION_DETAILS_BLOCKS ==
  {"CollectionDetails", "ViewMovieOverview"}
DELETE_MOVIE_BLOCKS ==
  {"DeleteMoviePrompt", "DeleteMovieConfirmPrompt", "DeleteMovieToggleDeleteFile",
   "DeleteMovieToggleAddListExclusion"}
EDIT_INDEXER_BLOCKS ==
  {"EditIndexerPrompt", "EditIndexerConfirmPrompt", "EditIndexerApiKeyInput",
   "EditIndexerNameInput", "EditIndexerSeedRatioInput", "EditIndexerToggleEnableRss",
   "EditIndexerToggleEnableAutomaticSearch", "EditIndexerToggleEnableInteractiveSearch",
   "EditIndexerPriorityInput", "EditIndexerUrlInput", "EditIndexerTagsInput"}
INDEXER_SETTINGS_BLOCKS ==
  {"AllIndexerSettingsPrompt", "IndexerSettingsAvailabilityDelayInput",
   "IndexerSettingsConfirmPrompt", "IndexerSettingsMaximumSizeInput",
   "IndexerSettingsMinimumAgeInput", "IndexerSettingsRetentionInput",
   "IndexerSettingsRssSyncIntervalInput", "IndexerSettingsToggleAllowHardcodedSubs",
   "IndexerSettingsTogglePreferIndexerFlags",
   "IndexerSettingsWhitelistedSubtitleTagsInput"}
SYSTEM_DETAILS_BLOCKS ==
  {"SystemLogs", "SystemQueuedEvents", "SystemTasks", "SystemTaskStartConfirmPrompt",
   "SystemUpdates"}

\* the selection steps of the other wizards, row by row
DELETE_MOVIE_SELECTION_BLOCKS ==
  <<"DeleteMovieToggleDeleteFile", "DeleteMovieToggleAddListExclusion",
    "DeleteMovieConfirmPrompt">>
EDIT_INDEXER_TORRENT_SELECTION_BLOCKS ==
  <<"EditIndexerNameInput", "EditIndexerUrlInput", "EditIndexerToggleEnableRss",
    "EditIndexerApiKeyInput", "EditIndexerToggleEnableAutomaticSearch",
    "EditIndexerSeedRatioInput", "EditIndexerToggleEnableInteractiveSearch",
    "EditIndexerTagsInput", "EditIndexerPriorityInput", "EditIndexerConfirmPrompt",
    "EditIndexerConfirmPrompt", "EditIndexerConfirmPrompt">>
EDIT_INDEXER_NZB_SELECTION_BLOCKS ==
  <<"EditIndexerNameInput", "EditIndexerUrlInput", "EditIndexerToggleEnableRss",
    "EditIndexerApiKeyInput", "EditIndexerToggleEnableAutomaticSearch",
    "EditIndexerTagsInput", "EditIndexerToggleEnableInteractiveSearch",
    "EditIndexerPriorityInput", "EditIndexerConfirmPrompt", "EditIndexerConfirmPrompt">>
INDEXER_SETTINGS_SELECTION_BLOCKS ==
  <<"IndexerSettingsMinimumAgeInput", "IndexerSettingsAvailabilityDelayInput",
    "IndexerSettingsRetentionInput", "IndexerSettingsRssSyncIntervalInput",
    "IndexerSettingsMaximumSizeInput", "IndexerSettingsWhitelistedSubtitleTagsInput",
    "IndexerSettingsTogglePreferIndexerFlags",
    "IndexerSettingsToggleAllowHardcodedSubs", "IndexerSettingsConfirmPrompt",
    "IndexerSettingsConfirmPrompt">>

\* the groups by name
BlockGroups ==
  [LIBRARY_BLOCKS |-> LIBRARY_BLOCKS,
   COLLECTIONS_BLOCKS |-> COLLECTIONS_BLOCKS,
   INDEXERS_BLOCKS |-> INDEXERS_BLOCKS,
   ROOT_FOLDERS_BLOCKS |-> ROOT_FOLDERS_BLOCKS,
   BLOCKLIST_BLOCKS |-> BLOCKLIST_BLOCKS,
   ADD_MOVIE_BLOCKS |-> ADD_MOVIE_BLOCKS,
   EDIT_COLLECTION_BLOCKS |-> EDIT_COLLECTION_BLOCKS,
   EDIT_MOVIE_BLOCKS |-> EDIT_MOVIE_BLOCKS,
   DOWNLOADS_BLOCKS |-> DOWNLOADS_BLOCKS,
   MOVIE_DETAILS_BLOCKS |-> MOVIE_DETAILS_BLOCKS,
   COLLECTION_DETAILS_BLOCKS |-> COLLECTION_DETAILS_BLOCKS,
   DELETE_MOVIE_BLOCKS |-> DELETE_MOVIE_BLOCKS,
   EDIT_INDEXER_BLOCKS |-> EDIT_INDEXER_BLOCKS,
   INDEXER_SETTINGS_BLOCKS |-> INDEXER_SETTINGS_BLOCKS,
   SYSTEM_DETAILS_BLOCKS |-> SYSTEM_DETAILS_BLOCKS]

\* the wizards: the selection steps of each and the block group of its handler
Wizards ==
  [add_movie |-> [steps |-> ADD_MOVIE_SELECTION_BLOCKS, group |-> ADD_MOVIE_BLOCKS],
   edit_movie |-> [steps |-> EDIT_MOVIE_SELECTION_BLOCKS, group |-> EDIT_MOVIE_BLOCKS],
   edit_collection |-> [steps |-> EDIT_COLLECTION_SELECTION_BLOCKS,
                        group |-> EDIT_COLLECTION_BLOCKS],
   delete_movie |-> [steps |-> DELETE_MOVIE_SELECTION_BLOCKS,
                     group |-> DELETE_MOVIE_BLOCKS],
   edit_indexer_torrent |-> [steps |-> EDIT_INDEXER_TORRENT_SELECTION_BLOCKS,
                             group |-> EDIT_INDEXER_BLOCKS],
   edit_indexer_nzb |-> [steps |-> EDIT_INDEXER_NZB_SELECTION_BLOCKS,
                         group |-> EDIT_INDEXER_BLOCKS],
   indexer_settings |-> [steps |-> INDEXER_SETTINGS_SELECTION_BLOCKS,
                         group |-> INDEXER_SETTINGS_BLOCKS]]

\* the names of the groups that contain a block
owning_groups(block) == {g \in DOMAIN BlockGroups : block \in BlockGroups[g]}

\* app is the current route, list the wizard that was opened last and its
\* BlockSelectionState
BlocksStep(op, new_route, new_wizard) ==
  /\ app' = new_route
  /\ list' = new_wizard
  /\ last' = [op |-> op]

\* Route::from(ActiveRadarrBlock): any block becomes the current route
BlocksRoute ==
  \E block \in ActiveRadarrBlock : BlocksStep("route", RouteOf(block), list)
\* a wizard opens on the first of its steps
BlocksOpenWizard ==
  \E w \in DOMAIN Wizards :
    BlocksStep("open", app,
               [wizard |-> w, selection |-> block_selection_new(Wizards[w].steps)])
BlocksSelectionNext ==
  /\ list.wizard # "none"
  /\ BlocksStep("next", app, [list EXCEPT !.selection = block_selection_next(@)])
BlocksSelectionPrevious ==
  /\ list.wizard # "none"
  /\ BlocksStep("previous", app,
                [list EXCEPT !.selection = block_selection_previous(@)])

BlocksInit ==
  /\ app = DEFAULT_ROUTE
  /\ list = [wizard |-> "none", selection |-> block_selection_new(<<>>)]
  /\ last = [op |-> "init"]

BlocksNext ==
  \/ BlocksRoute
  \/ BlocksOpenWizard
  \/ BlocksSelectionNext
  \/ BlocksSelectionPrevious

SpecBlocks == BlocksInit /\ [][BlocksNext]_vars


(* ------------- specification: fetches and the sort prompts ------------ *)
\* the series and the episodes the mock server answers with
SeriesRows == <<[id |-> 1, title |-> <<"z">>], [id |-> 2, title |-> <<"A">>]>>
EpisodeRows ==
  <<[id |-> 1, title |-> <<"z">>, season_number |-> 1],
    [id |-> 2, title |-> <<"A">>, season_number |-> 2]>>
\* the bodies of a response: no row, either row, both rows in either order
ResponsesOf(rows) ==
  {<<>>, <<rows[1]>>, <<rows[2]>>, <<rows[1], rows[2]>>, <<rows[2], rows[1]>>}

\* a.title.to_lowercase().cmp(&b.title.to_lowercase()) is Less or Equal;
\* the titles are one character long and ordered as their letters
LetterRank == [c \in {"a", "b", "c", "z", "!"} |->
                 CASE c = "!" -> 0 [] c = "a" -> 1 [] c = "b" -> 2
                   [] c = "c" -> 3 [] OTHER -> 26]
title_le(a, b) ==
  LetterRank[to_lowercase(a.title)[1]] <= LetterRank[to_lowercase(b.title)[1]]

\* slice::sort_by with that comparison: a stable insertion of each row
RECURSIVE sort_by_title(_)
sort_by_title(items) ==
  IF items = <<>> THEN <<>>
  ELSE LET rest == sort_by_title(SubSeq(items, 1, Len(items) - 1))
           row == items[Len(items)]
           before == SelectSeq(rest, LAMBDA r : title_le(r, row))
           after == SelectSeq(rest, LAMBDA r : ~title_le(r, row))
       IN before \o <<row>> \o after

\* a table with its sort option (none, or by title) and its direction
DefaultSortable == [table |-> DefaultStateful, sort |-> None, sort_asc |-> FALSE]

\* the rows as the table takes them: sorted when a sort option is set
sorted_rows(t, rows) == IF IsSome(t.sort) THEN sort_by_title(rows) ELSE rows

\* the episodes by season, each season under its marker
tree_of(rows) ==
  LET seasons == SelectSeq(<<1, 2>>, LAMBDA s : \E i \in 1..Len(rows) :
                                                   rows[i].season_number = s)
  IN [k \in 1..Len(seasons) |->
        [marker |-> seasons[k],
         children |-> SelectSeq(rows, LAMBDA r : r.season_number = seasons[k])]]

\* the ListSeries handler that fills the table whatever the route is
handle_list_series_always(a, rows) ==
  [a EXCEPT !.series.table = set_items(@, sorted_rows(a.series, rows))]

\* the ListSeries handler on a successful response
handle_list_series(a, rows) ==
  IF get_current_route(a).block = "SeriesSortPrompt" THEN a
  ELSE [a EXCEPT !.series.table = set_items(@, sorted_rows(a.series, rows))]

\* the GetEpisodes handler on a successful response: the tree is rebuilt,
\* the table is filled unless its sort prompt is the current route
handle_get_episodes(a, rows) ==
  LET a1 == [a EXCEPT !.episodes_tree = tree_of(rows)]
  IN IF get_current_route(a).block = "EpisodesTableSortPrompt" THEN a1
     ELSE [a1 EXCEPT !.episodes_table.table =
                       set_items(@, sorted_rows(a.episodes_table, rows))]

SortBlocks == {"Series", "SeriesSortPrompt", "SeasonDetails", "EpisodesTableSortPrompt"}

\* the App of the network tests: the stack and the three collections
SortApp ==
  [navigation_stack |-> <<RouteOf("Series")>>,
   is_routing |-> FALSE,
   series |-> [DefaultSortable EXCEPT !.sort_asc = TRUE],
   episodes_table |-> [DefaultSortable EXCEPT !.sort_asc = TRUE],
   episodes_tree |-> <<>>]

SortStep(op, rows, result, new) ==
  /\ app' = new
  /\ UNCHANGED list
  /\ last' = [op |-> op, rows |-> rows, result |-> result,
              block |-> get_current_route(app).block,
              series |-> app.series, episodes_table |-> app.episodes_table]

SortPush ==
  /\ Len(app.navigation_stack) < MaxDepth
  /\ \E block \in SortBlocks \ {"Series"} :
       SortStep("push", <<>>, None, push_navigation_stack(app, RouteOf(block)))
SortPop ==
  /\ Len(app.navigation_stack) > 1
  /\ SortStep("pop", <<>>, None, pop_navigation_stack(app))
\* series.sorting(vec![title_sort_option]), and the same on the episodes
SortSeriesSorting ==
  SortStep("sorting", <<>>, None, [app EXCEPT !.series.sort = Some("Title")])
SortEpisodesSorting ==
  SortStep("sorting", <<>>, None, [app EXCEPT !.episodes_table.sort = Some("Title")])
ListSeriesResponse ==
  \E rows \in ResponsesOf(SeriesRows) :
    SortStep("list_series", rows, Some("Ok"), handle_list_series(app, rows))
GetEpisodesResponse ==
  \E rows \in ResponsesOf(EpisodeRows) :
    SortStep("get_episodes", rows, Some("Ok"), handle_get_episodes(app, rows))

SortInit ==
  /\ app = SortApp
  /\ list = DefaultStateful
  /\ last = [op |-> "init", rows |-> <<>>, result |-> None, block |-> "Series",
             series |-> SortApp.series, episodes_table |-> SortApp.episodes_table]

SortNext ==
  \/ SortPush
  \/ SortPop
  \/ SortSeriesSorting
  \/ SortEpisodesSorting
  \/ ListSeriesResponse
  \/ GetEpisodesResponse

SpecSort == SortInit /\ [][SortNext]_vars


(* ------------------ claims on StatefulList / StatefulTable ------------ *)
\* C3: starting from an empty, unselected list, after any sequence of
\* set_items calls (and scrolls) a non-empty list has a selection Some(i)
\* with i < items.len(), and the selection is None only when items is empty.
C3_SelectionInRange ==
  /\ list.items # <<>> =>
       /\ IsSome(list.selected)
       /\ Unwrap(list.selected) < Len(list.items)
  /\ list.selected = None => list.items = <<>>

\* a set_items call that shrank the vector below the previous selection
C3_Witness ==
  /\ last.op = "set_items"
  /\ list.items # <<>>
  /\ IsSome(last.pre.selected)
  /\ Unwrap(last.pre.selected) >= Len(list.items)

\* C4: set_items(new) with non-empty new makes items = new; a previous
\* selection Some(i) with i < new.len() stays i, Some(i) with i >= new.len()
\* becomes new.len() - 1, and None becomes 0.
C4_SetItemsSelection ==
  (last.op = "set_items" /\ last.arg # <<>>) =>
     /\ list.items = last.arg
     /\ last.pre.selected = None => list.selected = Some(0)
     /\ IsSome(last.pre.selected) =>
          LET i == Unwrap(last.pre.selected) IN
            /\ i < Len(last.arg) => list.selected = Some(i)
            /\ i >= Len(last.arg) => list.selected = Some(Len(last.arg) - 1)

\* a set_items call that kept a selection other than the first row
C4_Witness ==
  /\ last.op = "set_items"
  /\ last.arg # <<>>
  /\ IsSome(last.pre.selected)
  /\ Unwrap(last.pre.selected) > 0
  /\ Unwrap(last.pre.selected) < Len(last.arg)
  /\ last.pre.items # last.arg

\* C5: on a non-empty list of length N with index i < N selected, N
\* consecutive scroll_down calls end with i selected, and so do N consecutive
\* scroll_up calls; scroll_down from N-1 selects 0, scroll_up from 0 selects N-1.
C5_CircularScroll ==
  LET N == Len(list.items) IN
  /\ (/\ last.op \in {"scroll_down", "scroll_up"}
      /\ N > 0
      /\ last.run = N
      /\ IsSome(last.start)
      /\ Unwrap(last.start) < N) => list.selected = last.start
  /\ (last.op = "scroll_down" /\ N > 0 /\ last.pre.selected = Some(N - 1))
        => list.selected = Some(0)
  /\ (last.op = "scroll_up" /\ N > 0 /\ last.pre.selected = Some(0))
        => list.selected = Some(N - 1)

\* a full round of scroll_down calls on a list of three or more rows
C5_Witness ==
  /\ last.op = "scroll_down"
  /\ Len(list.items) >= 3
  /\ last.run = Len(list.items)
  /\ last.start = Some(1)

(* ------------------ claims on the navigation stack -------------------- *)
Beneath(stack) == SubSeq(stack, 1, Len(stack) - 1)

\* C1: from the initial stack (the default route alone), after any sequence
\* of push, pop and pop_and_push the stack holds at least one route, and pop
\* on a stack of exactly one route leaves the stack unchanged.
C1_StackNeverEmpty ==
  /\ Len(app.navigation_stack) >= 1
  /\ (last.op = "pop" /\ Len(last.pre) = 1) => app.navigation_stack = last.pre

\* a pop was called on a stack of exactly one route
C1_Witness ==
  /\ last.op = "pop"
  /\ Len(last.pre) = 1

\* C2: after pop_and_push(R) on any reachable stack, a one-route stack
\* included, the top is R, the depth is the depth before the call and every
\* route beneath the top is unchanged; a tab switch is such a call with the
\* route of the tab that became active.
C2_PopAndPushReplacesTop ==
  /\ last.op = "pop_and_push" =>
       /\ get_current_route(app) = last.arg
       /\ Len(app.navigation_stack) = Len(last.pre)
       /\ Beneath(app.navigation_stack) = Beneath(last.pre)
  /\ last.op = "change_tab" =>
       /\ get_current_route(app) = main_tabs_active_route(app)
       /\ Len(app.navigation_stack) = Len(last.pre)
       /\ Beneath(app.navigation_stack) = Beneath(last.pre)

\* pop_and_push replaced the only route of a one-route stack by another route
C2_Witness ==
  /\ last.op = "pop_and_push"
  /\ Len(last.pre) = 1
  /\ last.pre[1] # last.arg

(* ------------------ claims on the dispatch cycle ---------------------- *)
\* the fetch events and the confirmed actions among the events of a cycle
fetch_events(sent) == SelectSeq(sent, LAMBDA e : e \in FetchEvents)
action_events(sent) == SelectSeq(sent, LAMBDA e : e \in ActionEvents)
\* the cycle that ran last started with a confirmed action pending
ConfirmedCycle ==
  /\ last.op = "dispatch"
  /\ last.pre.prompt_confirm
  /\ IsSome(last.pre.prompt_confirm_action)

\* C6: with prompt_confirm true and prompt_confirm_action = Some(E), one
\* dispatch cycle for any block sends E exactly once, sets should_refresh and
\* leaves prompt_confirm false and prompt_confirm_action None; a cycle that
\* starts with no confirmation pending sends no confirmed action.
C6_ConfirmedActionFiresOnce ==
  /\ ConfirmedCycle =>
       /\ action_events(app.sent) = <<Unwrap(last.pre.prompt_confirm_action)>>
       /\ app.should_refresh
       /\ ~app.prompt_confirm
       /\ app.prompt_confirm_action = None
  /\ (last.op = "dispatch" /\ ~ConfirmedCycle) => action_events(app.sent) = <<>>

\* C7: in every cycle that starts with a confirmed action pending, for every
\* block, the action is sent, and it is sent after all the fetch events of
\* the block, never before one of them.
C7_ActionAfterFetches ==
  ConfirmedCycle =>
    \E i \in 1..Len(app.sent) :
      /\ app.sent[i] = Unwrap(last.pre.prompt_confirm_action)
      /\ \A j \in 1..Len(app.sent) : app.sent[j] \in FetchEvents => j < i

\* C8: Escape on a confirmation prompt pops the prompt route and sets
\* prompt_confirm to false without storing an action, and the dispatch cycle
\* that follows sends no confirmed action.
C8_EscCancelsPrompt ==
  [][/\ (last'.op = "esc" /\ last'.block \in PromptBlocks) =>
          /\ app.navigation_stack = Append(app'.navigation_stack, RouteOf(last'.block))
          /\ ~app'.prompt_confirm
          /\ app'.prompt_confirm_action = app.prompt_confirm_action
     /\ (last.op = "esc" /\ last.block \in PromptBlocks /\ last'.op = "dispatch") =>
          action_events(app'.sent) = <<>>]_vars

\* Escape on a prompt whose answer was yes while an earlier confirmed action
\* is still stored
C8_Witness ==
  /\ last.op = "esc"
  /\ last.block \in PromptBlocks
  /\ last.pre.prompt_confirm
  /\ IsSome(app.prompt_confirm_action)

\* the fetch events the dispatcher declares for a block, in order
DeclaredFetches(block) ==
  CASE block = "Collections" -> <<"GetCollections">>
    [] block = "Downloads" -> <<"GetDownloads">>
    [] block = "RootFolders" -> <<"GetRootFolders">>
    [] block = "Movies" -> <<"GetMovies", "GetDownloads">>
    [] block = "AddMovieSearchResults" -> <<"SearchNewMovie">>
    [] block \in {"MovieDetails", "FileInfo"} -> <<"GetMovieDetails">>
    [] block = "MovieHistory" -> <<"GetMovieHistory">>
    [] OTHER -> <<>>
ConditionalBlocks == {"Cast", "Crew", "ManualSearch"}

C10_ConditionalFetch ==
  /\ (last.op = "dispatch" /\ last.block \in {"Cast", "Crew"}) =>
       fetch_events(app.sent) =
         IF last.pre.movie_cast.items = <<>> \/ last.pre.movie_crew.items = <<>>
         THEN <<"GetMovieCredits">> ELSE <<>>
  /\ (last.op = "dispatch" /\ last.block = "ManualSearch") =>
       fetch_events(app.sent) =
         IF last.pre.movie_releases.items = <<>> THEN <<"GetReleases">> ELSE <<>>

\* a Crew cycle that fetches the credits although the cast is loaded
C10_Witness ==
  /\ last.op = "dispatch"
  /\ last.block = "Crew"
  /\ last.pre.movie_cast.items # <<>>
  /\ last.pre.movie_crew.items = <<>>
  /\ fetch_events(app.sent) = <<"GetMovieCredits">>

(* ------------------ claims on the tick pass --------------------------- *)
\* the shared reference-data events of a first render, in the order sent
FirstRenderEvents ==
  <<"GetQualityProfiles", "GetTags", "GetRootFolders", "GetOverview", "GetStatus">>
Range(seq) == {seq[i] : i \in 1..Len(seq)}
\* the events one dispatch cycle sends from the state the last step started in
CycleSent == dispatch_cycle(last.pre, last.block).sent
TickDue(a) == a.tick_count % a.tick_until_poll = 0
\* the pass that ran last was not a first render and was entered with the
\* refresh flag alone
RefreshPass ==
  /\ last.op = "tick"
  /\ last.key = Some(FALSE)
  /\ last.pre.should_refresh
  /\ ~last.pre.is_routing
  /\ ~TickDue(last.pre)
\* the pass that ran last was a completed periodic pass: not a first render,
\* no refresh flag, routing or the tick count at the polling interval
PollPass ==
  /\ last.op = "tick"
  /\ last.key = Some(FALSE)
  /\ ~last.pre.should_refresh
  /\ last.pre.is_routing \/ TickDue(last.pre)
  /\ ~app.panicked
\* what a periodic pass sent after its dispatch cycle: the metadata refresh
RefreshSent == SubSeq(app.sent, Len(CycleSent) + 1, Len(app.sent))

\* C11: a tick pass that is not a first render, entered with should_refresh
\* set, is_routing false and the tick count not a multiple of the polling
\* interval, runs exactly one dispatch cycle: it sends the events of one
\* cycle for the active block and no metadata refresh event.
C11_RefreshDispatchesOnce == RefreshPass => app.sent = CycleSent

\* C12 as stated: the events of the periodic metadata refresh are a strict
\* subset of the five first-render reference events and GetOverview is not
\* among them.
C12_RefreshSubsetOfFirstRender ==
  PollPass =>
    /\ Range(RefreshSent) \subseteq Range(FirstRenderEvents)
    /\ Range(RefreshSent) # Range(FirstRenderEvents)
    /\ "GetOverview" \notin Range(RefreshSent)

\* C12 as amended: the periodic metadata refresh sends GetQualityProfiles,
\* GetTags and GetDownloads; it shares the first two with the first-render
\* reference events, GetDownloads is not one of those, and GetOverview is
\* not sent.
C12_RefreshEvents ==
  PollPass =>
    /\ Range(RefreshSent) \cap Range(FirstRenderEvents) = {"GetQualityProfiles", "GetTags"}
    /\ Range(RefreshSent) \ Range(FirstRenderEvents) = {"GetDownloads"}
    /\ "GetOverview" \notin Range(RefreshSent)

\* a periodic pass run because a route changed, with the tick count off the
\* polling interval
C12_Witness ==
  /\ PollPass
  /\ last.pre.is_routing
  /\ ~TickDue(last.pre)
  /\ Len(RefreshSent) > 0

\* C13: a first-render pass sends the five reference events in the order
\* GetQualityProfiles, GetTags, GetRootFolders, GetOverview, GetStatus, and
\* the events of the active block's dispatch cycle follow them, whichever
\* block is active.
C13_FirstRenderOrder ==
  (last.op = "tick" /\ last.key = Some(TRUE)) =>
    /\ Len(app.sent) >= Len(FirstRenderEvents) + Len(CycleSent)
    /\ SubSeq(app.sent, 1, Len(FirstRenderEvents) + Len(CycleSent))
         = FirstRenderEvents \o CycleSent

\* a first render of the Movies screen, whose cycle sends two fetch events
C13_Witness ==
  /\ last.op = "tick"
  /\ last.key = Some(TRUE)
  /\ last.block = "Movies"
  /\ fetch_events(CycleSent) = <<"GetMovies", "GetDownloads">>
  /\ ~app.panicked

(* ------------------ claims on search and filter ----------------------- *)
\* the stack with its top route replaced
ReplaceTop(stack, route) == [stack EXCEPT ![Len(stack)] = route]
\* the rows, counted from zero, whose stripped title contains the pattern
Hits(items, pattern) ==
  {i \in 0..(Len(items) - 1) :
     contains(strip_non_search_characters(items[i + 1].title), pattern)}
\* the last step ran the search protocol, or the filter protocol, with a
\* stored query
SearchRan == last.op = "search" /\ IsSome(last.pre.search)
FilterRan == last.op = "filter" /\ IsSome(last.pre.filter)
\* the table the views and the operations on the current movie work on
ActiveMovies(a) == IF a.filtered_movies.items # <<>> THEN a.filtered_movies ELSE a.movies

\* C14: when the search protocol runs with a stored query: if an item matches
\* (as the protocol matches: the lowercased query within the stripped title),
\* the input route is popped and the first matching row is selected; if none
\* matches, the top route is replaced by the error block and the selection is
\* unchanged; either way is_searching is false and the query is cleared.
C14_SearchSelectsFirstMatch ==
  SearchRan =>
    LET hits == Hits(last.pre.movies.items, to_lowercase(Unwrap(last.pre.search)))
    IN /\ hits # {} =>
            /\ app.navigation_stack = Beneath(last.pre.navigation_stack)
            /\ IsSome(app.movies.selected)
            /\ Unwrap(app.movies.selected) \in hits
            /\ \A j \in hits : Unwrap(app.movies.selected) <= j
       /\ hits = {} =>
            /\ app.navigation_stack =
                 ReplaceTop(last.pre.navigation_stack, RouteOf("SearchMovieError"))
            /\ app.movies = last.pre.movies
       /\ ~app.is_searching
       /\ app.search = None

\* a search that moved the selection down to the second row, the first match
C14_Witness ==
  /\ SearchRan
  /\ last.pre.movies.selected = Some(0)
  /\ app.movies.selected = Some(1)
  /\ app.navigation_stack = <<DEFAULT_ROUTE>>

\* C15: search and filter normalise both sides the same way: an item matches
\* when its stripped, lowercased title contains the stripped, lowercased
\* query; search finds a row exactly when some item matches in this sense,
\* and a successful filter keeps exactly the items that match in this sense.
C15_BothSidesNormalised ==
  /\ SearchRan =>
       (app.navigation_stack = Beneath(last.pre.navigation_stack)
          <=> Hits(last.pre.movies.items,
                   strip_non_search_characters(Unwrap(last.pre.search))) # {})
  /\ SearchRan =>
       \A i \in Hits(last.pre.movies.items,
                     strip_non_search_characters(Unwrap(last.pre.search))) :
         IsSome(app.movies.selected) /\ Unwrap(app.movies.selected) <= i
  /\ (FilterRan /\ Unwrap(last.pre.filter) # <<>>
        /\ app.navigation_stack = Beneath(last.pre.navigation_stack)) =>
       app.filtered_movies.items =
         filter_matches_of(last.pre.movies.items,
                           strip_non_search_characters(Unwrap(last.pre.filter)))

\* C16: when the filter protocol runs: with an empty query the input route
\* is popped and the unfiltered source is the active view; with a non-empty
\* query matching some item the input route is popped and the filtered table
\* holds exactly the matching items in source order; in every case
\* is_filtering is false and the query is cleared.
C16_FilterProtocol ==
  /\ (FilterRan /\ Unwrap(last.pre.filter) = <<>>) =>
       /\ app.navigation_stack = Beneath(last.pre.navigation_stack)
       /\ ActiveMovies(app) = app.movies
       /\ app.movies = last.pre.movies
  /\ (FilterRan /\ Unwrap(last.pre.filter) # <<>>
        /\ Hits(last.pre.movies.items,
                strip_non_search_characters(Unwrap(last.pre.filter))) # {}) =>
       /\ app.navigation_stack = Beneath(last.pre.navigation_stack)
       /\ app.filtered_movies.items =
            filter_matches_of(last.pre.movies.items,
                              strip_non_search_characters(Unwrap(last.pre.filter)))
  /\ last.op = "filter" => ~app.is_filtering /\ app.filter = None

\* C17: when the filter protocol runs with a non-empty query that matches no
\* item, the top route is replaced by the error block and, whatever the
\* filtered table held before, it is empty afterwards, so that the unfiltered
\* source is the active view.
C17_NoMatchDiscardsFiltered ==
  (FilterRan /\ Unwrap(last.pre.filter) # <<>>
     /\ Hits(last.pre.movies.items,
             strip_non_search_characters(Unwrap(last.pre.filter))) = {}) =>
    /\ app.navigation_stack =
         ReplaceTop(last.pre.navigation_stack, RouteOf("FilterMoviesError"))
    /\ app.filtered_movies.items = <<>>
    /\ ActiveMovies(app) = app.movies

(* ------------- claims on the current movie and collection ------------- *)
\* C18: whenever the filtered movies (collections) table is non-empty, every
\* operation on the current movie (collection) reads the selection of the
\* filtered table: populate_edit_movie_fields, populate_edit_collection_fields,
\* populate_movie_collection_table and the two prompts that name the movie;
\* the selection of the unfiltered table is read only when the filtered
\* table is empty.
C18_FilteredSelectionIsCurrent ==
  LET movie == current_selection(ActiveMovies(last.pre))
      collection ==
        current_selection(IF last.pre.filtered_collections.items # <<>>
                          THEN last.pre.filtered_collections
                          ELSE last.pre.collections)
  IN /\ (last.op = "populate_edit_movie" /\ ~app.panicked) =>
          /\ app.edit_path = movie.path
          /\ app.edit_monitored = Some(movie.monitored)
     /\ (last.op = "populate_edit_collection" /\ ~app.panicked) =>
          /\ app.edit_path = unwrap_or_default(collection.root_folder_path)
          /\ app.edit_search_on_add = Some(collection.search_on_add)
     /\ (last.op = "populate_collection_table" /\ ~app.panicked) =>
          app.collection_movies.items = unwrap_or_default(collection.movies)
     /\ (last.op = "draw_prompt" /\ ~app.panicked) =>
          app.frame = Some(movie.title)

(* ------------------ claims on the wizard steps ------------------------ *)
\* the step list of the wizard an operation belongs to
StepsOf(op) ==
  CASE op \in {"next_add_movie", "previous_add_movie"} -> ADD_MOVIE_SELECTION_BLOCKS
    [] op \in {"next_edit_movie", "previous_edit_movie"} -> EDIT_MOVIE_SELECTION_BLOCKS
    [] op \in {"next_edit_collection", "previous_edit_collection"} ->
         EDIT_COLLECTION_SELECTION_BLOCKS
NextOps == {"next_add_movie", "next_edit_movie", "next_edit_collection"}
PreviousOps == {"previous_add_movie", "previous_edit_movie", "previous_edit_collection"}

\* C19: for each of the three wizards, six applications of its next-step
\* function from the first step visit the steps in their declared order and
\* end at the first step, and one application of its previous-step function
\* from the first step gives the sixth step; BlockSelectionState.next wraps
\* from the last block to the first and previous from the first to the last.
C19_WizardWraparound ==
  /\ (last.op \in NextOps /\ last.run = Len(StepsOf(last.op))
        /\ last.trail[1] = StepsOf(last.op)[1]) =>
       /\ last.trail = StepsOf(last.op) \o <<StepsOf(last.op)[1]>>
       /\ list.selected_block = StepsOf(last.op)[1]
  /\ (last.op \in PreviousOps /\ last.pre.selected_block = StepsOf(last.op)[1]) =>
       list.selected_block = StepsOf(last.op)[Len(StepsOf(last.op))]
  /\ (last.op = "selection_next"
        /\ last.pre.selection.index = Len(list.selection.blocks) - 1) =>
       list.selection.index = 0
  /\ (last.op = "selection_previous" /\ last.pre.selection.index = 0) =>
       list.selection.index = Len(list.selection.blocks) - 1
  /\ list.selection.index < Len(list.selection.blocks)

\* six next steps of the edit-collection wizard, begun at its first step
C19_Witness ==
  /\ last.op = "next_edit_collection"
  /\ last.run = Len(EDIT_COLLECTION_SELECTION_BLOCKS)
  /\ last.trail[1] = "EditCollectionToggleMonitored"
  /\ list.selected_block = "EditCollectionToggleMonitored"

\* C20: for every block that is not one of a wizard's six steps, the
\* wizard's next-step function and its previous-step function both return
\* the wizard's first step.
C20_UnmatchedBlockGivesFirstStep ==
  (/\ last.op \in NextOps \cup PreviousOps
   /\ last.pre.selected_block \notin Range(StepsOf(last.op))) =>
    list.selected_block = StepsOf(last.op)[1]

\* the previous step of the edit-movie wizard asked for a step of another wizard
C20_Witness ==
  /\ last.op = "previous_edit_movie"
  /\ last.pre.selected_block = "AddMovieConfirmPrompt"
  /\ list.selected_block = "EditMovieToggleMonitored"

(* ------------------ claims on tab states ------------------------------ *)
\* C21: for a TabState built with at least one tab, after any sequence of
\* next and previous calls (and of reset_movie_info_tabs, which sets the
\* index to 0) the index is less than tabs.len(); next from the last tab
\* selects index 0 and previous from index 0 selects the last tab.
C21_TabIndexInRange ==
  /\ list.index < Len(list.tabs)
  /\ app.main_tabs_index < Len(MainTabBlocks)
  /\ app.movie_info_tabs_index < Len(MovieInfoTabBlocks)
  /\ (last.op = "next" /\ last.pre.index = Len(list.tabs) - 1) => list.index = 0
  /\ (last.op = "previous" /\ last.pre.index = 0) => list.index = Len(list.tabs) - 1
  /\ (last.op = "main_tabs_key" /\ last.key = Some("right")
        /\ last.pre_app.main_tabs_index = Len(MainTabBlocks) - 1)
       => app.main_tabs_index = 0
  /\ (last.op = "movie_info_tabs_key" /\ last.key = Some("left")
        /\ last.pre_app.movie_info_tabs_index = 0)
       => app.movie_info_tabs_index = Len(MovieInfoTabBlocks) - 1
  /\ last.op = "esc" => app.movie_info_tabs_index = 0

\* previous wrapped a TabState of several tabs from the first tab to the last
C21_Witness ==
  /\ last.op = "previous"
  /\ last.pre.index = 0
  /\ Len(list.tabs) > 1
  /\ list.index = Len(list.tabs) - 1

\* C22: after a left or right key is handled as a tab switch (main tabs, or
\* the movie-details handler on one of the six movie-info tab blocks) the
\* current route is the route of the now-active tab of that TabState, and
\* the routes beneath the top of the navigation stack are unchanged.
C22_TabSwitchRoutesToActiveTab ==
  /\ last.op = "main_tabs_key" =>
       /\ get_current_route(app) = main_tabs_active_route(app)
       /\ Beneath(app.navigation_stack) = Beneath(last.pre_app.navigation_stack)
  /\ last.op = "movie_info_tabs_key" =>
       /\ get_current_route(app) = movie_info_tabs_active_route(app)
       /\ Beneath(app.navigation_stack) = Beneath(last.pre_app.navigation_stack)

\* a right key moved the movie details from the first tab to the history tab
C22_Witness ==
  /\ last.op = "movie_info_tabs_key"
  /\ Len(app.navigation_stack) = 2
  /\ last.pre_app.movie_info_tabs_index = 0
  /\ get_current_route(app) = RouteOf("MovieHistory")

(* ------------- claims on horizontally scrollable text ----------------- *)
\* C23: after any sequence of scroll_left, scroll_right, scroll_home,
\* reset_offset, scroll_left_or_reset, push, pop and drain the offset is
\* between 0 and the text length; scroll_left adds one and saturates at the
\* text length, scroll_right subtracts one and saturates at 0, scroll_home
\* sets the offset to the text length and reset_offset sets it to 0.
C23_OffsetWithinText ==
  ~list.panicked =>
    /\ 0 <= list.offset /\ list.offset <= str_len(list.text)
    /\ last.op = "scroll_left" =>
         list.offset = IF last.pre.offset < str_len(list.text)
                       THEN last.pre.offset + 1 ELSE str_len(list.text)
    /\ last.op = "scroll_right" =>
         list.offset = IF last.pre.offset > 0 THEN last.pre.offset - 1 ELSE 0
    /\ last.op = "scroll_home" => list.offset = str_len(list.text)
    /\ last.op = "reset_offset" => list.offset = 0

ScrollOps == {"scroll_up", "scroll_down", "scroll_to_top", "scroll_to_bottom"}

\* C25: for every state of a StatefulList or StatefulTable and every item
\* sequence s, set_items(s) twice in a row leaves the same items and the same
\* selection as set_items(s) once: a fetch result applied twice gives the
\* same collection state as applied once.
C25_SetItemsIdempotent ==
  last.op = "set_items" =>
    /\ set_items(list, last.arg) = list
    /\ last.repeat => list = last.pre

\* the same items, more than one, were set twice in a row and the selection
\* stayed on the last row
C25_Witness ==
  /\ last.op = "set_items"
  /\ last.repeat
  /\ last.arg # <<>>
  /\ list.items = last.arg
  /\ list.selected = Some(Len(list.items) - 1)
  /\ Len(list.items) > 1

\* C26: scroll_up, scroll_down, scroll_to_top and scroll_to_bottom applied to
\* a StatefulList or StatefulTable with no items leave its items and its
\* selection unchanged.
C26_ScrollOnEmptyIsNoOp ==
  (last.op \in ScrollOps /\ last.pre.items = <<>>) => list = last.pre

\* scroll_to_bottom ran on an empty table that had a row selected
C26_Witness ==
  /\ last.op = "scroll_to_bottom"
  /\ last.pre.items = <<>>
  /\ IsSome(last.pre.selected)
  /\ list = last.pre

(* ------------------ claims on empty collections ----------------------- *)
\* C27: selecting on an empty collection never fails: a dispatch cycle for
\* CollectionDetails while the collections table and the filtered
\* collections table are both empty completes without a failure and leaves
\* collection_movies empty, and populate_edit_movie_fields /
\* populate_edit_collection_fields with empty source and filtered tables
\* complete without a failure.
C27_EmptySelectionNeverFails ==
  /\ (last.op = "dispatch" /\ last.block = "CollectionDetails"
        /\ last.pre.collections.items = <<>>
        /\ last.pre.filtered_collections.items = <<>>)
       => (~app.panicked /\ app.collection_movies.items = <<>>)
  /\ (last.op = "populate_edit_movie"
        /\ last.pre.movies.items = <<>> /\ last.pre.filtered_movies.items = <<>>)
       => ~app.panicked
  /\ (last.op = "populate_edit_collection"
        /\ last.pre.collections.items = <<>>
        /\ last.pre.filtered_collections.items = <<>>)
       => ~app.panicked

(* ------------------ claims on the scrollable text pane ---------------- *)
\* C28: for a ScrollableText with L >= 1 lines, scroll_down adds one to the
\* offset only while offset < L-1 and otherwise leaves it unchanged,
\* scroll_up subtracts one only while offset > 0 and otherwise leaves it
\* unchanged (neither wraps), scroll_to_top sets the offset to 0 and
\* scroll_to_bottom sets it to L-1.
C28_PaneScrollClamps ==
  Len(list.items) >= 1 =>
    /\ last.op = "scroll_down" =>
         list.offset = IF last.pre.offset < Len(list.items) - 1
                       THEN last.pre.offset + 1 ELSE last.pre.offset
    /\ last.op = "scroll_up" =>
         list.offset = IF last.pre.offset > 0
                       THEN last.pre.offset - 1 ELSE last.pre.offset
    /\ last.op = "scroll_to_top" => list.offset = 0
    /\ last.op = "scroll_to_bottom" => list.offset = Len(list.items) - 1
    /\ last.op # "init" => list.items = last.pre.items

\* scroll_down on the last line of a pane of several lines stayed there
C28_Witness ==
  /\ last.op = "scroll_down"
  /\ Len(list.items) > 1
  /\ last.pre.offset = Len(list.items) - 1
  /\ list.offset = Len(list.items) - 1

(* ------------------ claims on the network worker ---------------------- *)
\* the request at hand failed: it was not sent, its status was not a
\* success, or the body of a successful GET or POST did not parse
RequestFailed(n) ==
  \/ n.outcome \in {"send_failed", "non_success"}
  \/ n.outcome = "unparsable" /\ n.method \in {"Get", "Post"}
\* handle_request has returned
RequestDone(n) == n.pc \in {"finish", "finishing"}

\* C29: when sending the request fails, when the response status is not a
\* success, or when the body of a successful GET or POST cannot be parsed,
\* handle_request stores a message in the error slot and does not apply the
\* update function; and handle_network_event ends with is_loading false
\* whether the request succeeded or failed.
C29_FailureStoresError ==
  /\ (RequestDone(list) /\ RequestFailed(list)) =>
       /\ list.stored
       /\ app.error = MessageOf(list.outcome)
       /\ app.error # <<>>
       /\ ~list.applied
  /\ last.op = "finish" => ~app.is_loading

\* a GET came back with a body that does not parse, while the tick had
\* raised is_loading
C29_Witness ==
  /\ RequestDone(list)
  /\ list.outcome = "unparsable"
  /\ list.method = "Get"
  /\ list.stored
  /\ app.is_loading

\* C30: the network worker never holds the application-state lock while a
\* request is being sent or its response is awaited: the lock is taken only
\* to build the request and, after the response has arrived, to apply the
\* update or to store the error, so key handling and tick passes can take
\* the lock while a request is in flight.
C30_NoLockAcrossRequest ==
  /\ list.pc \in InFlight => list.lock # "network"
  /\ list.lock = "network" =>
       list.pc \in {"building", "updating", "storing_error", "finishing"}
  /\ (list.pc \in InFlight /\ list.ui = "idle") => list.lock = "free"

\* the thread of keys and ticks holds the lock while the request is in flight
C30_Witness ==
  /\ list.pc = "sending"
  /\ list.lock = "ui"
  /\ last.op = "ui_lock"

(* ------------- claims on text panes and text boxes -------------------- *)
\* C39: for a ScrollableText in any state, the one with no lines included,
\* any sequence of scroll_up, scroll_down, scroll_to_top and scroll_to_bottom
\* completes without arithmetic underflow and leaves
\* offset <= max(number of lines - 1, 0); the End key before the details
\* have loaded leaves the offset at 0.
C39_PaneScrollNeverUnderflows ==
  /\ ~list.panicked
  /\ list.offset <= IF Len(list.items) >= 1 THEN Len(list.items) - 1 ELSE 0

\* C40: for every HorizontallyScrollableText and every caret offset in
\* 0..=text length, push(c) followed by pop() restores the original text
\* and leaves the offset unchanged: push inserts c immediately before the
\* caret position and pop removes the character immediately before the caret.
C40_PushPopRestores ==
  /\ (last.op = "push" /\ last.pre.offset <= str_len(last.pre.text))
       => ~list.panicked
  /\ (last.op = "pop" /\ last.op_before = "push"
        /\ last.before.offset <= str_len(last.before.text))
       => /\ ~list.panicked
          /\ list.text = last.before.text
          /\ list.offset = last.before.offset

(* ------------------ claims on prompts and dispatch cycles ------------- *)
\* C33: once a prompt has been submitted with yes, its action is sent to
\* the network exactly once by a later dispatch cycle, whatever key events
\* are handled before that cycle runs: a submitted action is never dropped
\* and never replaced by another action before it has fired.
C33_SubmittedActionFiresOnce ==
  (last.op = "dispatch" /\ last.owed_before # <<>>)
    => action_events(app.sent) = last.owed_before

\* C36: submitting a confirmation prompt while no is selected pops the
\* prompt route and stores no action, and no confirmation action is sent by
\* any later dispatch cycle until some prompt is submitted with yes.
C36_DeclinedPromptSendsNothing ==
  /\ (last.op = "submit" /\ last.block \in PromptBlocks /\ ~last.pre.prompt_confirm)
       => /\ app.navigation_stack = Beneath(last.pre.navigation_stack)
          /\ app.prompt_confirm_action = last.pre.prompt_confirm_action
  /\ (last.op = "dispatch" /\ last.declined) => action_events(app.sent) = <<>>


\* the route directly beneath the top of the navigation stack, if there is one
route_beneath(a) ==
  IF Len(a.navigation_stack) > 1
  THEN Some(a.navigation_stack[Len(a.navigation_stack) - 1])
  ELSE None

\* C37: in every state reached through the movie-details key handler, when
\* the current route is a movie-info tab block, or a prompt is on top and the
\* route directly beneath it is a movie-info tab block, that route is the
\* active route of movie_info_tabs; after Escape from a tab the index is 0.
C37_TabRouteIsActiveTab ==
  /\ current_block \in MovieInfoBlocks
       => get_current_route(app) = movie_info_tabs_active_route(app)
  /\ (current_block \in PromptBlocks /\ IsSome(route_beneath(app))
        /\ Unwrap(route_beneath(app)).block \in MovieInfoBlocks)
       => Unwrap(route_beneath(app)) = movie_info_tabs_active_route(app)
  /\ (last.op = "esc" /\ last.block \in MovieInfoBlocks)
       => app.movie_info_tabs_index = 0
C37_Witness ==
  /\ current_block \in PromptBlocks
  /\ IsSome(route_beneath(app))
  /\ Unwrap(route_beneath(app)).block = "Cast"
  /\ app.movie_info_tabs_index = 3
  /\ last.op = "left_right"


(* ---------------- claims on fetches and late responses ---------------- *)
\* C35: is_loading is true in every state in which a network event that a
\* dispatch cycle sent has not yet been handled to the end by the worker.
C35_LoadingWhilePending ==
  pending_events(app, list) # <<>> => app.is_loading


\* the rows of the cast, crew and releases tables
details_rows(a) ==
  {a.movie_cast.items[i] : i \in 1..Len(a.movie_cast.items)}
    \cup {a.movie_crew.items[i] : i \in 1..Len(a.movie_crew.items)}
    \cup {a.movie_releases.items[i] : i \in 1..Len(a.movie_releases.items)}

\* C34: after Escape closed the movie details the cast, crew and releases
\* tables stay empty until the details are opened again, also when responses
\* to earlier fetches arrive; so the tables are empty when the details are
\* opened, and while they are open the tables hold no row that was fetched
\* for another movie than the one opened.
C34_ClosedDetailsStayEmpty ==
  /\ last.closed => details_rows(app) = {}
  /\ last.op = "open" => details_rows(app) = {}
  /\ current_block \in MovieInfoBlocks => details_rows(app) \subseteq {last.movie}


(* -------------------- claims on the block groups ---------------------- *)
\* C32: every block of ActiveRadarrBlock belongs to exactly one of the named
\* block groups: the block of the current route is in one group and in no
\* second one.
C32_BlockInExactlyOneGroup ==
  Cardinality(owning_groups(app.block)) = 1

\* C38: every block that is a step of a wizard's selection list is a member
\* of that wizard's block group, so the step that next and previous arrive at
\* is owned by the wizard's handler.
C38_WizardStepInWizardGroup ==
  list.wizard # "none"
    => get_active_block(list.selection) \in Wizards[list.wizard].group


====
